---- MODULE Spec2Model ----
(***************************************************************************)
(* Pending-notification reconciliation of the match bot:                   *)
(*   bot/runner_pkg/pending.py         the pending pass (upgrade / expire) *)
(*   bot/runner_pkg/webhook_client.py  create / edit with outcome codes    *)
(*   bot/runner_pkg/timeutil.py        timestamps of the pending state     *)
(*   bot/gist_state.py                 key migration of load_state         *)
(*   bot/runner.py                     run_bot: load, pass, players, save  *)
(*   bot/runner_pkg/players.py         process_player                      *)
(*                                                                         *)
(* Time is counted in milliseconds.  Python values that may be absent or   *)
(* of the wrong type are tagged records [k, v]: k is "none" (None / key    *)
(* missing), "num" (int or float), "iso" (ISO-8601 string), "digits" (a    *)
(* string of digits) or "junk" (any other non-empty string).               *)
(***************************************************************************)
EXTENDS Integers, Sequences, FiniteSets, TLC

\* ------------------------------------------------------------------------
\* Program constants
\* ------------------------------------------------------------------------
MsPerSec == 1000

DEFAULT_EXPIRY == 10800
MIN_EXPIRY == 300
MAX_EXPIRY == 10800

DEFAULT_RECHECK == 300
MIN_RECHECK == 60
MAX_RECHECK == 3600

DEFAULT_MAX_CHECKS_PER_RUN == 8
MIN_MAX_CHECKS_PER_RUN == 1
MAX_MAX_CHECKS_PER_RUN == 50

\* retry-after handling of the webhook client, in milliseconds
RETRY_DEFAULT_MS == 2000
RETRY_MIN_MS == 500
RETRY_MAX_MS == 60000
RETRY_TINY_MS == 200
COOLDOWN_THRESHOLD_MS == 10000
HARD_BLOCK_MIN_BACKOFF_MS == 15000
HARD_BLOCK_FIRST_BACKOFF_MS == 30000

\* ------------------------------------------------------------------------
\* Bounds of the model
\* ------------------------------------------------------------------------
\* the wall clock when the process starts, and the last instant explored
StartClock == 1000000
MaxClock == 1400000
\* how many passes the process runs
MaxPasses == 2
\* the recheck window (seconds) of the entries the process starts with
SeedRecheck == 240
\* the time between two successive reads of the clock, when it is counted
ClockReadGap == 1
\* how long after its start the client on its own is followed
ClientHorizon == 13000

Subjects == {1, 2}

\* ------------------------------------------------------------------------
\* Python values
\* ------------------------------------------------------------------------
NoVal == [k |-> "none", v |-> 0]
Num(n) == [k |-> "num", v |-> n]
Iso(t) == [k |-> "iso", v |-> t]
Digits(n) == [k |-> "digits", v |-> n]
Junk == [k |-> "junk", v |-> 0]

\* Python truthiness: None, 0 and "" are false
Truthy(x) == IF x.k = "none" THEN FALSE
             ELSE IF x.k = "num" THEN x.v # 0
             ELSE TRUE

Max(a, b) == IF a >= b THEN a ELSE b
Min(a, b) == IF a <= b THEN a ELSE b

\* a variant: the time is written as a number of seconds
now_seconds(clk) == Num(clk \div MsPerSec)

\* ------------------------------------------------------------------------
\* timeutil.py
\* ------------------------------------------------------------------------
now_iso(clk) == Iso(clk)

\* numbers pass through, ISO strings are parsed, anything else is 0.0
iso_to_epoch(x) ==
    IF x.k = "num" THEN x.v
    ELSE IF x.k = "iso" THEN x.v
    ELSE 0

\* ------------------------------------------------------------------------
\* The process environment (read at import time or at each call)
\* ------------------------------------------------------------------------
\* FALLBACK_EXPIRY_SEC, PENDING_MAX_CHECKS_PER_RUN: raw strings;
\* DEBUG_MODE, DISCORD_WEBHOOK_URL, DISCORD_WEBHOOK_URL_DEBUG: the webhook
\* selection ("" is an unset variable)
Envs ==
    { [expiryRaw |-> NoVal, maxChecksRaw |-> Digits(1), debugLevel |-> 0,
       prodWebhook |-> "hookProd", debugWebhook |-> ""],
      [expiryRaw |-> Digits(MIN_EXPIRY + 2), maxChecksRaw |-> NoVal, debugLevel |-> 0,
       prodWebhook |-> "hookProd", debugWebhook |-> ""] }

\* DEBUG_MODE=1 with DISCORD_WEBHOOK_URL_DEBUG set: the debug routing is on
DebugEnv == [expiryRaw |-> NoVal, maxChecksRaw |-> NoVal, debugLevel |-> 1,
             prodWebhook |-> "hookProd", debugWebhook |-> "hookDebug"]

\* no webhook variable is set
BareEnv == [expiryRaw |-> NoVal, maxChecksRaw |-> NoVal, debugLevel |-> 0,
            prodWebhook |-> "", debugWebhook |-> ""]

\* ------------------------------------------------------------------------
\* The pending store: keys and entries
\* ------------------------------------------------------------------------
\* "<matchId>:<steamId>"
CompositeKey(m, s) == [kind |-> "composite", m |-> m, s |-> s]
\* "<matchId>", the legacy key shape
LegacyKey(m) == [kind |-> "legacy", m |-> m, s |-> 0]

\* a value of the store that is not a dict
NotADict ==
    [isDict |-> FALSE, matchId |-> NoVal, steamId |-> NoVal, messageId |-> NoVal,
     webhookBase |-> "", postedAt |-> NoVal, lastCheckedAt |-> NoVal,
     expiresAfterSec |-> NoVal, recheckWindowSec |-> NoVal, snapshot |-> ""]

\* the entry process_player writes after a placeholder post
NewEntry(m, s, msg, base, posted) ==
    [isDict |-> TRUE, matchId |-> Num(m), steamId |-> Num(s), messageId |-> Num(msg),
     webhookBase |-> base, postedAt |-> posted, lastCheckedAt |-> NoVal,
     expiresAfterSec |-> NoVal, recheckWindowSec |-> Num(DEFAULT_RECHECK),
     snapshot |-> "nick"]

\* ------------------------------------------------------------------------
\* pending.py: bounds and defaults
\* ------------------------------------------------------------------------
\* a value taken as it comes
Unclamped(lo, hi, v) == v

\* max(lo, min(hi, v))
Clamp(lo, hi, v) == Max(lo, Min(hi, v))

env_expiry_seconds(env) ==
    IF env.expiryRaw.k = "digits"
    THEN Clamp(MIN_EXPIRY, MAX_EXPIRY, env.expiryRaw.v)
    ELSE DEFAULT_EXPIRY

env_max_checks_per_run(env) ==
    IF env.maxChecksRaw.k = "digits"
    THEN Clamp(MIN_MAX_CHECKS_PER_RUN, MAX_MAX_CHECKS_PER_RUN, env.maxChecksRaw.v)
    ELSE DEFAULT_MAX_CHECKS_PER_RUN

entry_expiry_seconds(entry, env) ==
    IF entry.expiresAfterSec.k = "num"
    THEN Clamp(MIN_EXPIRY, MAX_EXPIRY, entry.expiresAfterSec.v)
    ELSE env_expiry_seconds(env)

\* numbers and digit strings are epochs, other strings go through
\* iso_to_epoch, anything else is 0.0
posted_at_epoch(entry) ==
    LET v == entry.postedAt IN
    IF v.k = "num" THEN v.v
    ELSE IF v.k = "digits" THEN v.v
    ELSE IF v.k \in {"iso", "junk"} THEN iso_to_epoch(v)
    ELSE 0

recheck_window(entry) ==
    IF entry.recheckWindowSec.k = "num"
    THEN Clamp(MIN_RECHECK, MAX_RECHECK, entry.recheckWindowSec.v)
    ELSE DEFAULT_RECHECK

\* fixed cadence: no jitter
stable_jitter_seconds(stable_key) == 0

\* max(5.0, window + jitter) seconds since the last check
RECHECK_FLOOR == 5

\* a variant: the window must be exceeded, not reached
should_recheck_after(entry, stable_key, now_epoch) ==
    LET window == recheck_window(entry)
        jitter == stable_jitter_seconds(stable_key)
    IN  IF ~Truthy(entry.lastCheckedAt) THEN TRUE
        ELSE (now_epoch - iso_to_epoch(entry.lastCheckedAt))
                 > Max(RECHECK_FLOOR, window + jitter) * MsPerSec

should_recheck_now(entry, stable_key, now_epoch) ==
    LET window == recheck_window(entry)
        jitter == stable_jitter_seconds(stable_key)
    IN  IF ~Truthy(entry.lastCheckedAt) THEN TRUE
        ELSE (now_epoch - iso_to_epoch(entry.lastCheckedAt))
                 >= Max(RECHECK_FLOOR, window + jitter) * MsPerSec

\* ------------------------------------------------------------------------
\* pending.py: _normalize_pending_map
\* ------------------------------------------------------------------------
RECURSIVE SetToSeq(_)
SetToSeq(S) ==
    IF S = {} THEN <<>>
    ELSE LET x == CHOOSE y \in S : TRUE IN <<x>> \o SetToSeq(S \ {x})

\* int(val.get("steamId")): a number or a digit string converts
IntOk(x) == x.k \in {"num", "digits"}

\* val.get("matchId") or key: a key is a non-empty string
MatchIdOrKey(key, val) == IF Truthy(val.matchId) THEN val.matchId ELSE Junk

\* a variant: the target is built from the key alone
KeyOfMatchOnly(key, val) == CompositeKey(key.m, 0)

\* the migration target of a legacy entry: f"{int(key)}:{steam}"
MigratedKey(key, val) == CompositeKey(key.m, val.steamId.v)

\* a variant: no key is ever taken
NeverCollides(new_key, pending_map, to_add) == FALSE

\* not (new_key not in pending_map and new_key not in to_add)
Collides(new_key, pending_map, to_add) ==
    new_key \in DOMAIN pending_map \/ new_key \in DOMAIN to_add

\* the loop over list(pending_map.items()): to_delete and to_add after the
\* keys ks[i..] are visited
RECURSIVE normalize_loop(_, _, _, _, _)
normalize_loop(pending_map, ks, i, to_delete, to_add) ==
    IF i > Len(ks) THEN [to_delete |-> to_delete, to_add |-> to_add]
    ELSE
      LET key == ks[i]
          val == pending_map[key]
      IN
      IF ~val.isDict
      THEN normalize_loop(pending_map, ks, i + 1, to_delete \cup {key}, to_add)
      ELSE IF ~Truthy(MatchIdOrKey(key, val)) \/ val.steamId.k = "none"
      THEN normalize_loop(pending_map, ks, i + 1, to_delete \cup {key}, to_add)
      ELSE IF /\ key.kind = "legacy"
              /\ IntOk(val.steamId)
              /\ ~Collides(MigratedKey(key, val), pending_map, to_add)
      THEN normalize_loop(pending_map, ks, i + 1, to_delete \cup {key},
                          (MigratedKey(key, val) :> val) @@ to_add)
      ELSE normalize_loop(pending_map, ks, i + 1, to_delete, to_add)

\* the store after the deletions and pending_map.update(to_add)
normalize_pending_map(pending_map) ==
    LET r == normalize_loop(pending_map, SetToSeq(DOMAIN pending_map), 1, {}, <<>>)
        kept == DOMAIN pending_map \ r.to_delete
    IN  [k \in kept \cup DOMAIN r.to_add |->
            IF k \in DOMAIN r.to_add THEN r.to_add[k] ELSE pending_map[k]]

\* ------------------------------------------------------------------------
\* gist_state.py: the migration of load_state
\* ------------------------------------------------------------------------
\* the loop over list(pending.items()): migrated and changed after the keys
\* ks[i..] are visited
RECURSIVE load_state_loop(_, _, _, _, _)
load_state_loop(pm, ks, i, migrated, changed) ==
    IF i > Len(ks) THEN [migrated |-> migrated, changed |-> changed]
    ELSE
      LET k == ks[i]
          entry == pm[k]
      IN
      IF /\ k.kind = "legacy"
         /\ entry.isDict
         /\ IntOk(entry.steamId)
         /\ MigratedKey(k, entry) \notin DOMAIN pm
         /\ MigratedKey(k, entry) \notin DOMAIN migrated
      THEN load_state_loop(pm, ks, i + 1, (MigratedKey(k, entry) :> entry) @@ migrated, TRUE)
      ELSE load_state_loop(pm, ks, i + 1, (k :> entry) @@ migrated, changed)

\* parsed["pending"] as load_state returns it
load_state(pm) ==
    LET r == load_state_loop(pm, SetToSeq(DOMAIN pm), 1, <<>>, FALSE)
    IN  IF r.changed THEN r.migrated ELSE pm

\* ------------------------------------------------------------------------
\* webhook_client.py
\* ------------------------------------------------------------------------
\* A response of the messaging endpoint: the HTTP status (0: the request
\* raised, e.g. a timeout), whether the body carries the Cloudflare 1015
\* text, the body's retry_after (in thousandths: Num(5000) is 5.0) and
\* the body as JSON: "id" (an object with an id), "noid" (an object without
\* one) or "none" (no JSON object).
Resp(status, cf, ra, body) == [status |-> status, cf |-> cf, ra |-> ra, body |-> body]

Responses ==
    { Resp(200, FALSE, NoVal, "id"),
      Resp(200, FALSE, NoVal, "noid"),
      Resp(204, FALSE, NoVal, "none"),
      Resp(404, FALSE, NoVal, "noid"),
      Resp(429, FALSE, NoVal, "noid"),
      Resp(429, FALSE, Num(11000), "noid"),
      Resp(429, TRUE, NoVal, "none"),
      Resp(403, TRUE, NoVal, "none"),
      Resp(500, FALSE, NoVal, "none"),
      Resp(0, FALSE, NoVal, "none") }

\* the first response of a call and the response to its retry; a retry is
\* made only after a 429
ResponsePairs ==
    { p \in Responses \X Responses : p[1].status # 429 => p[2] = p[1] }

\* _ensure_webhook_url: the debug override, then the explicit url, then the
\* default resolved at import ("" stands for None)
resolve_env_webhook(env) ==
    IF env.debugLevel > 0 THEN env.debugWebhook ELSE env.prodWebhook

ensure_webhook_url(webhook_url, env) ==
    IF env.debugLevel > 0 /\ env.debugWebhook # "" THEN env.debugWebhook
    ELSE IF webhook_url # "" THEN webhook_url
    ELSE resolve_env_webhook(env)

set_webhook_cooldown(cd, clk, ms) == Max(cd, clk + Max(0, ms))

\* a variant: the cooldown is never seen
cooldown_never_active(cd, clk) == FALSE

\* time.monotonic() < _WEBHOOK_COOLDOWN_UNTIL
webhook_cooldown_active(cd, clk) == clk < cd

webhook_cooldown_remaining(cd, clk) == Max(0, cd - clk)

\* the duration read as seconds whatever its size
parse_retry_after_as_seconds(r) ==
    IF r.ra.k \in {"num", "digits"}
    THEN Max(RETRY_MIN_MS, Min(r.ra.v, RETRY_MAX_MS))
    ELSE RETRY_DEFAULT_MS

\* float(data["retry_after"]) takes a number or a numeric string
parse_retry_after(r) ==
    IF r.ra.k \in {"num", "digits"}
    THEN LET v == r.ra.v
             w == IF v > RETRY_MAX_MS THEN v \div MsPerSec
                  ELSE IF 0 < v /\ v < RETRY_TINY_MS THEN v * MsPerSec
                  ELSE v
         IN  Max(RETRY_MIN_MS, Min(w, RETRY_MAX_MS))
    ELSE RETRY_DEFAULT_MS

looks_like_cloudflare_1015(r) == r.status = 429 /\ r.cf

\* a variant: a server error is retried like a rate limit
is_rate_limited_or_server_error(r) == r.status = 429 \/ r.status >= 500

\* if r.status_code == 429: the first response is rate-limited
is_rate_limited(r) == r.status = 429

\* a variant: the failures outside the named ones are reported as "error"
OutcomeLegacyCode(ok, msgId, code, backoff, hb, cd, clk, reqs, url) ==
    [ok |-> ok, msgId |-> msgId,
     code |-> IF code = "other_error" THEN "error" ELSE code, backoff |-> backoff,
     hb |-> hb, cd |-> cd, clk |-> clk, reqs |-> reqs, url |-> url]

\* a variant: a call that returns ok clears the hard-block flag
OutcomeClearingFlag(ok, msgId, code, backoff, hb, cd, clk, reqs, url) ==
    [ok |-> ok, msgId |-> msgId, code |-> code, backoff |-> backoff,
     hb |-> hb /\ ~ok, cd |-> cd, clk |-> clk, reqs |-> reqs, url |-> url]

\* The outcome of one call and the client state after it: reqs counts the
\* network requests issued, url is the endpoint they went to.
Outcome(ok, msgId, code, backoff, hb, cd, clk, reqs, url) ==
    [ok |-> ok, msgId |-> msgId, code |-> code, backoff |-> backoff,
     hb |-> hb, cd |-> cd, clk |-> clk, reqs |-> reqs, url |-> url]

\* the message id returned by the endpoint for a created message
NewMsgId == 77

edit_discord_message(message_id, webhook_url, env, r1, r2, hb, cd, clk) ==
    LET url == ensure_webhook_url(webhook_url, env) IN
    IF url = ""
    THEN Outcome(FALSE, NoVal, "other_error", 0, hb, cd, clk, 0, "")
    ELSE IF webhook_cooldown_active(cd, clk)
    THEN Outcome(FALSE, NoVal, "rate_limited", webhook_cooldown_remaining(cd, clk),
                 hb, cd, clk, 0, "")
    ELSE IF r1.status = 0
    THEN Outcome(FALSE, NoVal, "other_error", 0, hb, cd, clk, 1, url)
    ELSE IF r1.status \in {200, 204}
    THEN Outcome(TRUE, NoVal, "ok", 0, hb, cd, clk, 1, url)
    ELSE IF r1.status \in {404, 410}
    THEN Outcome(FALSE, NoVal, "not_found", 0, hb, cd, clk, 1, url)
    ELSE IF is_rate_limited(r1)
    THEN LET backoff == parse_retry_after(r1) IN
         IF backoff > COOLDOWN_THRESHOLD_MS
         THEN Outcome(FALSE, NoVal, "rate_limited", backoff, hb,
                      set_webhook_cooldown(cd, clk, backoff), clk, 1, url)
         ELSE LET clk2 == clk + backoff IN
              IF r2.status = 0
              THEN Outcome(FALSE, NoVal, "other_error", 0, hb, cd, clk2, 2, url)
              ELSE IF r2.status \in {200, 204}
              THEN Outcome(TRUE, NoVal, "ok", 0, hb, cd, clk2, 2, url)
              ELSE IF r2.status \in {404, 410}
              THEN Outcome(FALSE, NoVal, "not_found", 0, hb, cd, clk2, 2, url)
              ELSE IF looks_like_cloudflare_1015(r2)
              THEN Outcome(FALSE, NoVal, "hard_block",
                           Max(HARD_BLOCK_MIN_BACKOFF_MS, backoff), TRUE, cd, clk2, 2, url)
              ELSE Outcome(FALSE, NoVal, "other_error", 0, hb, cd, clk2, 2, url)
    ELSE IF r1.status \in {403, 429} /\ looks_like_cloudflare_1015(r1)
    THEN Outcome(FALSE, NoVal, "hard_block", HARD_BLOCK_FIRST_BACKOFF_MS,
                 TRUE, cd, clk, 1, url)
    ELSE Outcome(FALSE, NoVal, "other_error", 0, hb, cd, clk, 1, url)

\* the 200/204 branch of a create: the id is read only when it was asked
\* for, as str(msg.get("id")) of a JSON object (str(None) for an object
\* without an id, a non-empty string)
PostSuccess(want_message_id, r, hb, cd, clk, reqs, url) ==
    LET msg_id == IF ~want_message_id THEN NoVal
                  ELSE IF r.body = "id" THEN Num(NewMsgId)
                  ELSE IF r.body = "noid" THEN Junk
                  ELSE NoVal
    IN  IF want_message_id /\ ~Truthy(msg_id)
        THEN Outcome(FALSE, NoVal, "other_error", 0, hb, cd, clk, reqs, url)
        ELSE Outcome(TRUE, msg_id, "ok", 0, hb, cd, clk, reqs, url)

post_to_discord_embed(want_message_id, webhook_url, env, r1, r2, hb, cd, clk) ==
    LET url == ensure_webhook_url(webhook_url, env) IN
    IF url = ""
    THEN Outcome(FALSE, NoVal, "other_error", 0, hb, cd, clk, 0, "")
    ELSE IF webhook_cooldown_active(cd, clk)
    THEN Outcome(FALSE, NoVal, "rate_limited", webhook_cooldown_remaining(cd, clk),
                 hb, cd, clk, 0, "")
    ELSE IF r1.status = 0
    THEN Outcome(FALSE, NoVal, "other_error", 0, hb, cd, clk, 1, url)
    ELSE IF r1.status \in {200, 204}
    THEN PostSuccess(want_message_id, r1, hb, cd, clk, 1, url)
    ELSE IF is_rate_limited(r1)
    THEN LET backoff == parse_retry_after(r1)
             cd2 == IF backoff > COOLDOWN_THRESHOLD_MS
                    THEN set_webhook_cooldown(cd, clk, backoff) ELSE cd
             clk2 == clk + backoff
         IN  IF r2.status = 0
             THEN Outcome(FALSE, NoVal, "other_error", 0, hb, cd2, clk2, 2, url)
             ELSE IF r2.status \in {200, 204}
             THEN PostSuccess(want_message_id, r2, hb, cd2, clk2, 2, url)
             ELSE IF looks_like_cloudflare_1015(r2)
             THEN Outcome(FALSE, NoVal, "hard_block",
                          Max(HARD_BLOCK_MIN_BACKOFF_MS, backoff), TRUE, cd2, clk2, 2, url)
             ELSE IF r2.status = 429
             THEN Outcome(FALSE, NoVal, "rate_limited",
                          Max(backoff, parse_retry_after(r2)), hb, cd2, clk2, 2, url)
             ELSE Outcome(FALSE, NoVal, "other_error", 0, hb, cd2, clk2, 2, url)
    ELSE IF r1.status \in {403, 429} /\ looks_like_cloudflare_1015(r1)
    THEN Outcome(FALSE, NoVal, "hard_block", HARD_BLOCK_FIRST_BACKOFF_MS,
                 TRUE, cd, clk, 1, url)
    ELSE Outcome(FALSE, NoVal, "other_error", 0, hb, cd, clk, 1, url)

\* ------------------------------------------------------------------------
\* The persisted store the process starts from
\* ------------------------------------------------------------------------
\* an entry as process_player wrote it, with per-entry overrides
SeedEntry(m, s, posted, expires, recheck) ==
    [NewEntry(m, s, 100 * m + s, "hookA", posted) EXCEPT
        !.expiresAfterSec = expires, !.recheckWindowSec = recheck]

\* the keys the persisted store may hold when the process starts, and the
\* values each may hold: two entries of subject 1 posted one millisecond
\* apart whose recheck windows differ by one second, an entry without
\* message id, an entry whose postedAt does not parse, and a legacy entry of
\* either subject (one without expiry override, one written before matchId
\* was stored in the entry)
SeedKeys == {CompositeKey(1, 1), CompositeKey(2, 1), LegacyKey(1)}

SeedValues(key) ==
    IF key = CompositeKey(1, 1)
    THEN { SeedEntry(1, 1, Num(StartClock), Num(MIN_EXPIRY), Num(SeedRecheck)),
           [SeedEntry(1, 1, Num(StartClock), Num(MIN_EXPIRY), Num(SeedRecheck))
               EXCEPT !.messageId = NoVal] }
    ELSE IF key = CompositeKey(2, 1)
    THEN { SeedEntry(2, 1, Iso(StartClock + 1), Num(MIN_EXPIRY), Num(SeedRecheck + 1)),
           SeedEntry(2, 1, Junk, NoVal, Num(SeedRecheck)) }
    ELSE { SeedEntry(key.m, 2, Num(StartClock + 2), NoVal, Num(SeedRecheck)),
           [SeedEntry(key.m, 1, Num(StartClock + 2), Num(MIN_EXPIRY), Num(SeedRecheck))
               EXCEPT !.matchId = NoVal] }

\* the first of the values of a key
FirstSeedValue(key) ==
    IF key = CompositeKey(1, 1)
    THEN SeedEntry(1, 1, Num(StartClock), Num(MIN_EXPIRY), Num(SeedRecheck))
    ELSE IF key = CompositeKey(2, 1)
    THEN SeedEntry(2, 1, Iso(StartClock + 1), Num(MIN_EXPIRY), Num(SeedRecheck + 1))
    ELSE SeedEntry(key.m, 2, Num(StartClock + 2), NoVal, Num(SeedRecheck))

\* the store holds up to two of these keys with any of their values
SeedStores ==
    UNION { {f \in [K -> UNION {SeedValues(k) : k \in K}] :
                \A k \in K : f[k] \in SeedValues(k)} :
            K \in (SUBSET SeedKeys) \ {SeedKeys} }

\* or, in a process with a poll budget of one, all three with the first
\* value of each; a process with the debug routing on starts with one entry
FullSeedStore == [k \in SeedKeys |-> FirstSeedValue(k)]

\* or a legacy entry next to the composite entry of the same match and
\* subject: load_state and the normalization keep both while both are there
DuplicateSeedStore ==
    (CompositeKey(1, 1) :> FirstSeedValue(CompositeKey(1, 1)))
    @@ (LegacyKey(1) :> SeedEntry(1, 1, Num(StartClock + 2), NoVal, Num(SeedRecheck)))

SeedStates ==
    { [env |-> e, pending |-> load_state(g)] : e \in Envs, g \in SeedStores }
    \cup { [env |-> DebugEnv, pending |-> load_state(g)] :
              g \in {x \in SeedStores : Cardinality(DOMAIN x) = 1} }
    \cup { [env |-> e, pending |-> load_state(g)] :
              e \in {x \in Envs : x.maxChecksRaw = Digits(1)},
              g \in {FullSeedStore, DuplicateSeedStore} }

\* ------------------------------------------------------------------------
\* State
\* ------------------------------------------------------------------------
VARIABLES
    clock,          \* time.time() / time.monotonic(), in ms
    env,            \* the process environment
    hardBlocked,    \* _HARD_BLOCKED
    cooldownUntil,  \* _WEBHOOK_COOLDOWN_UNTIL
    pending,        \* state["pending"]
    loaded,         \* state["pending"] as the last pass found it
    seen,           \* state[str(steamId)]: the subject's last-seen match, 0 if none
    pc,             \* "idle", or "pass" inside process_pending_upgrades_and_expiry
    now_epoch,      \* the pass's now_epoch
    order,          \* the pass's sorted list of keys
    idx,            \* the position of the pass in order
    checks_used,    \* the pass's checks_used
    ret,            \* what the last pass returned: "none", "true", "false"
    passes,         \* how many passes the process has started
    log,            \* what the current pass did, one record per entry visited
    last,           \* the last step of the pass in detail
    lastCall,       \* the last call of the webhook client made outside a pass
    run             \* the position of run_bot and what the run did so far

vars == <<clock, env, hardBlocked, cooldownUntil, pending, loaded, seen, pc, now_epoch,
          order, idx, checks_used, ret, passes, log, last, lastCall, run>>

NoStep == [key |-> CompositeKey(0, 0), entry |-> NotADict, act |-> "none",
           fetch |-> "none", edited |-> FALSE, code |-> "none", reqs |-> 0,
           url |-> "", hbBefore |-> FALSE, cdBefore |-> FALSE]

NoCall == [op |-> "none", want |-> FALSE, r1 |-> Resp(0, FALSE, NoVal, "none"),
           r2 |-> Resp(0, FALSE, NoVal, "none"), ok |-> FALSE, code |-> "none",
           msgId |-> NoVal, backoff |-> 0, reqs |-> 0, url |-> "", arg |-> "",
           hbBefore |-> FALSE, remBefore |-> 0, clkBefore |-> 0, cdAfter |-> 0,
           hbAfter |-> FALSE, clkAfter |-> 0]

\* save_state was not called
NotSaved == [pending |-> <<>>, seen |-> <<>>, called |-> FALSE]

\* stage: where run_bot is; i: the index of the next subject; first: what
\* the first pass of the run returned; calls: the calls of process_player;
\* processed: run_bot's counter; polls: the upstream polls of the passes
\* that have returned; partyCorrupt: state["partyPending"] holds a value
\* that is not a dict; saved: the argument of save_state; edit: the edit
\* process_player made of the pending entry of the subject's latest match
\* process_player made no edit of a pending entry
NoEdit == [made |-> FALSE, key |-> [kind |-> "none", m |-> 0, s |-> 0], code |-> "none"]

\* no placeholder was created by process_player
NoPost == [made |-> FALSE, key |-> [kind |-> "none", m |-> 0, s |-> 0], ok |-> FALSE,
           msgId |-> NoVal, url |-> "", before |-> 0, had |-> FALSE]

NoRun == [stage |-> "none", i |-> 1, first |-> "none", calls |-> 0,
          processed |-> 0, polls |-> 0, partyCorrupt |-> FALSE, saved |-> NotSaved,
          edit |-> NoEdit, post |-> NoPost]

Init ==
    /\ clock = StartClock
    /\ \E st \in SeedStates :
         /\ env = st.env
         /\ pending = st.pending
    /\ hardBlocked = FALSE
    /\ cooldownUntil = 0
    /\ loaded = pending
    /\ seen = [s \in Subjects |-> 0]
    /\ pc = "idle"
    /\ now_epoch = 0
    /\ order = <<>>
    /\ idx = 1
    /\ checks_used = 0
    /\ ret = "none"
    /\ passes = 0
    /\ log = <<>>
    /\ last = NoStep
    /\ lastCall = NoCall
    /\ run = NoRun

\* ------------------------------------------------------------------------
\* pending.py: process_pending_upgrades_and_expiry
\* ------------------------------------------------------------------------
Remove(pm, key) == [k \in DOMAIN pm \ {key} |-> pm[k]]

\* a variant: the entries in any order
AnyOrders(pm) ==
    LET n == Cardinality(DOMAIN pm) IN
    { sq \in [1..n -> DOMAIN pm] : \A i, j \in 1..n : i # j => sq[i] # sq[j] }

\* sorted(list(pending_map.items()), key=_posted_at_epoch): the sort is
\* stable, entries of equal epoch come in the order of the dict
SortedOrders(pm) ==
    LET n == Cardinality(DOMAIN pm) IN
    { sq \in [1..n -> DOMAIN pm] :
        /\ \A i, j \in 1..n : i # j => sq[i] # sq[j]
        /\ \A i, j \in 1..n :
              i < j => posted_at_epoch(pm[sq[i]]) <= posted_at_epoch(pm[sq[j]]) }

\* CONFIG.get("webhook_url"): DISCORD_WEBHOOK_URL
config_webhook_url(e) == e.prodWebhook

\* entry.get("webhookBase") or CONFIG.get("webhook_url")
BaseUrl(entry, e) == IF entry.webhookBase # "" THEN entry.webhookBase
                     ELSE config_webhook_url(e)

\* not (not match_id or not steam_id or not message_id or not base_url)
Processable(entry, e) ==
    /\ entry.isDict
    /\ Truthy(entry.matchId)
    /\ Truthy(entry.steamId)
    /\ Truthy(entry.messageId)
    /\ BaseUrl(entry, e) # ""

\* a variant: the expiry must be exceeded, not reached
ExpiryDueAfter(entry, e, now) ==
    /\ posted_at_epoch(entry) > 0
    /\ (now - posted_at_epoch(entry)) > entry_expiry_seconds(entry, e) * MsPerSec

\* a variant: the expiry test comes after the recheck spacing
ExpiryDueWhenRecheckDue(entry, e, now) ==
    /\ posted_at_epoch(entry) > 0
    /\ (now - posted_at_epoch(entry)) >= entry_expiry_seconds(entry, e) * MsPerSec
    /\ should_recheck_now(entry, "", now)

\* posted_at_epoch > 0 and (now_epoch - posted_at_epoch) >= expires_after
ExpiryDue(entry, e, now) ==
    /\ posted_at_epoch(entry) > 0
    /\ (now - posted_at_epoch(entry)) >= entry_expiry_seconds(entry, e) * MsPerSec

\* the time that passes between the clock read of an edit and the clock
\* read of the abort check that follows it
Elapsed == {0, ClockReadGap}

abort_if_blocked(hb, cd, clk) == hb \/ webhook_cooldown_active(cd, clk)

\* what fetch_full_match returns for the entry's match, as the pass reads it:
\* nothing, the quota signal, data without the subject's record, data with
\* the record and imp = None, data with the record and an imp
FetchResults == {"none", "quota", "no_player", "imp_null", "ready"}

\* one record of the log: the key visited, the ids and the times of its
\* entry as the pass found it, what the pass did with it ("skip", "expire",
\* "wait", "budget", "poll") and the code of its edit
Event(key, entry, act, fetch, edited, out, hb, cd, clk) ==
    [key |-> key, matchId |-> entry.matchId, steamId |-> entry.steamId,
     posted |-> IF entry.isDict THEN posted_at_epoch(entry) ELSE 0,
     expires |-> IF entry.isDict THEN entry_expiry_seconds(entry, env) ELSE 0,
     checked |-> entry.lastCheckedAt,
     window |-> IF entry.isDict THEN recheck_window(entry) ELSE 0,
     act |-> act, edited |-> edited, code |-> out.code]

\* the same step in detail: the entry as the pass found it, what the fetch
\* returned, the requests the edit issued and their endpoint, and whether
\* the client was hard-blocked or cooling down when the step began
Step(key, entry, act, fetch, edited, out, hb, cd, clk) ==
    [key |-> key, entry |-> entry, act |-> act, fetch |-> fetch,
     edited |-> edited, code |-> out.code, reqs |-> out.reqs, url |-> out.url,
     hbBefore |-> hb, cdBefore |-> webhook_cooldown_active(cd, clk)]

NoOutcome == Outcome(FALSE, NoVal, "none", 0, FALSE, 0, 0, 0, "")

CurKey == order[idx]
CurEntry == pending[CurKey]

InPass == pc = "pass" /\ idx <= Len(order)

\* the instants at which an entry becomes due, the end of the cooldown and
\* the instant just before it
Instants ==
    { posted_at_epoch(pending[k]) + entry_expiry_seconds(pending[k], env) * MsPerSec :
        k \in DOMAIN pending }
    \cup { iso_to_epoch(pending[k].lastCheckedAt) + recheck_window(pending[k]) * MsPerSec :
        k \in DOMAIN pending }
    \cup {cooldownUntil, cooldownUntil - ClockReadGap}

\* the times at which the next call may come: at once, or at a later instant
CallTimes == {clock} \cup {t \in Instants : t > clock /\ t <= MaxClock}

\* the pass is called at some time: normalize, read the clock, sort
BeginPass ==
    /\ pc = "idle"
    /\ last' = NoStep
    /\ \E t \in CallTimes :
         /\ clock' = t
         /\ now_epoch' = t
    /\ LET pm == normalize_pending_map(pending) IN
         /\ pending' = pm
         /\ order' \in SortedOrders(pm)
    /\ loaded' = pending
    /\ idx' = 1
    /\ checks_used' = 0
    /\ ret' = "none"
    /\ log' = <<>>
    /\ pc' = "pass"
    /\ UNCHANGED <<env, hardBlocked, cooldownUntil, seen, lastCall, run>>

\* the same, counted
CallPass ==
    /\ passes' = passes + 1
    /\ BeginPass

PassStart ==
    /\ passes < MaxPasses
    /\ CallPass

\* an entry without match id, subject id, message id or endpoint: continue
StepSkip ==
    /\ InPass
    /\ ~Processable(CurEntry, env)
    /\ log' = Append(log, Event(CurKey, CurEntry, "skip", "none", FALSE, NoOutcome,
                                hardBlocked, cooldownUntil, clock))
    /\ last' = Step(CurKey, CurEntry, "skip", "none", FALSE, NoOutcome,
                                hardBlocked, cooldownUntil, clock)
    /\ idx' = idx + 1
    /\ UNCHANGED <<clock, env, hardBlocked, cooldownUntil, pending, loaded, seen, pc,
                   now_epoch, order, checks_used, ret, passes, lastCall, run>>

\* a variant: the entry is dropped on ok only
DropsOnOkOnly(out) == out.ok

\* pending_map.pop(key, None): the edit returned ok or not_found
DropsEntry(out) == out.ok \/ out.code = "not_found"

\* a variant: the marker is left as it was
MarkNothing(sn, entry) == sn

\* state[str(steam_id)] = match_id
MarkSeen(sn, entry) == [sn EXCEPT ![entry.steamId.v] = entry.matchId.v]

\* the result of an edit applied to the store and to the pass: the entry is
\* dropped on ok and on not_found; after any other failure the pass reads
\* the flag and the clock again (the time between the two reads is counted
\* when the cooldown ends in it), aborts when the client is blocked and
\* leaves the entry (as kept) for a later pass
AfterEdit(out, kept, upgraded) ==
    /\ out.clk + ClockReadGap <= MaxClock
    /\ hardBlocked' = out.hb
    /\ cooldownUntil' = out.cd
    /\ pending' = IF DropsEntry(out) THEN Remove(pending, CurKey)
                  ELSE [pending EXCEPT ![CurKey] = kept]
    /\ seen' = IF out.ok /\ upgraded THEN MarkSeen(seen, CurEntry) ELSE seen
    /\ IF DropsEntry(out)
       THEN /\ clock' = out.clk
            /\ ret' = ret
            /\ pc' = pc
            /\ idx' = idx + 1
       ELSE \E d \in Elapsed :
              /\ d = 0 \/ abort_if_blocked(out.hb, out.cd, out.clk + d)
                             # abort_if_blocked(out.hb, out.cd, out.clk)
              /\ clock' = out.clk + d
              /\ IF abort_if_blocked(out.hb, out.cd, out.clk + d)
                 THEN /\ ret' = "false"
                      /\ pc' = "idle"
                      /\ idx' = idx
                 ELSE /\ ret' = ret
                      /\ pc' = pc
                      /\ idx' = idx + 1

StepExpire ==
    /\ InPass
    /\ Processable(CurEntry, env)
    /\ ExpiryDue(CurEntry, env, now_epoch)
    /\ \E rp \in ResponsePairs :
         LET out == edit_discord_message(CurEntry.messageId, BaseUrl(CurEntry, env),
                                         env, rp[1], rp[2], hardBlocked, cooldownUntil, clock)
         IN  /\ AfterEdit(out, CurEntry, FALSE)
             /\ log' = Append(log, Event(CurKey, CurEntry, "expire", "none", TRUE, out,
                                         hardBlocked, cooldownUntil, clock))
             /\ last' = Step(CurKey, CurEntry, "expire", "none", TRUE, out,
                                         hardBlocked, cooldownUntil, clock)
    /\ UNCHANGED <<env, loaded, now_epoch, order, checks_used, passes, lastCall, run>>

\* not due for expiry and checked less than a recheck window ago: continue
StepWait ==
    /\ InPass
    /\ Processable(CurEntry, env)
    /\ ~ExpiryDue(CurEntry, env, now_epoch)
    /\ ~should_recheck_now(CurEntry, CurKey, now_epoch)
    /\ log' = Append(log, Event(CurKey, CurEntry, "wait", "none", FALSE, NoOutcome,
                                hardBlocked, cooldownUntil, clock))
    /\ last' = Step(CurKey, CurEntry, "wait", "none", FALSE, NoOutcome,
                                hardBlocked, cooldownUntil, clock)
    /\ idx' = idx + 1
    /\ UNCHANGED <<clock, env, hardBlocked, cooldownUntil, pending, loaded, seen, pc,
                   now_epoch, order, checks_used, ret, passes, lastCall, run>>

\* an entry whose attempt is recorded although the budget is used up
StampedUnpolled(entry, clk) == [entry EXCEPT !.lastCheckedAt = now_iso(clk)]

\* the budget test comes before the fetch and before lastCheckedAt is
\* written: the entry is left as it is
LeftUnpolled(entry, clk) == entry

\* due for a recheck with the budget of the pass used up: continue
StepBudget ==
    /\ InPass
    /\ Processable(CurEntry, env)
    /\ ~ExpiryDue(CurEntry, env, now_epoch)
    /\ should_recheck_now(CurEntry, CurKey, now_epoch)
    /\ checks_used >= env_max_checks_per_run(env)
    /\ log' = Append(log, Event(CurKey, CurEntry, "budget", "none", FALSE, NoOutcome,
                                hardBlocked, cooldownUntil, clock))
    /\ last' = Step(CurKey, CurEntry, "budget", "none", FALSE, NoOutcome,
                                hardBlocked, cooldownUntil, clock)
    /\ idx' = idx + 1
    /\ pending' = [pending EXCEPT ![CurKey] = LeftUnpolled(CurEntry, clock)]
    /\ UNCHANGED <<clock, env, hardBlocked, cooldownUntil, loaded, seen, pc,
                   now_epoch, order, checks_used, ret, passes, lastCall, run>>

\* the subject's record is found by int(steam_id) and has an imp
Ready(entry, fetch) == fetch = "ready" /\ IntOk(entry.steamId)

\* the upstream poll, data not ready: lastCheckedAt is recorded, continue
StepPollNotReady ==
    /\ InPass
    /\ Processable(CurEntry, env)
    /\ ~ExpiryDue(CurEntry, env, now_epoch)
    /\ should_recheck_now(CurEntry, CurKey, now_epoch)
    /\ checks_used < env_max_checks_per_run(env)
    /\ IntOk(CurEntry.matchId)
    /\ \E fetch \in FetchResults :
         /\ ~Ready(CurEntry, fetch)
         /\ log' = Append(log, Event(CurKey, CurEntry, "poll", fetch, FALSE, NoOutcome,
                                     hardBlocked, cooldownUntil, clock))
         /\ last' = Step(CurKey, CurEntry, "poll", fetch, FALSE, NoOutcome,
                                     hardBlocked, cooldownUntil, clock)
    /\ checks_used' = checks_used + 1
    /\ pending' = [pending EXCEPT ![CurKey].lastCheckedAt = now_iso(clock)]
    /\ idx' = idx + 1
    /\ UNCHANGED <<clock, env, hardBlocked, cooldownUntil, loaded, seen, pc, now_epoch,
                   order, ret, passes, lastCall, run>>

\* the upstream poll, data ready: the message is edited to the full content
StepPollUpgrade ==
    /\ InPass
    /\ Processable(CurEntry, env)
    /\ ~ExpiryDue(CurEntry, env, now_epoch)
    /\ should_recheck_now(CurEntry, CurKey, now_epoch)
    /\ checks_used < env_max_checks_per_run(env)
    /\ IntOk(CurEntry.matchId)
    /\ Ready(CurEntry, "ready")
    /\ checks_used' = checks_used + 1
    /\ \E rp \in ResponsePairs :
         LET out == edit_discord_message(CurEntry.messageId, BaseUrl(CurEntry, env),
                                         env, rp[1], rp[2], hardBlocked, cooldownUntil, clock)
             checked == [CurEntry EXCEPT !.lastCheckedAt = now_iso(clock)]
         IN  /\ AfterEdit(out, checked, TRUE)
             /\ log' = Append(log, Event(CurKey, CurEntry, "poll", "ready", TRUE, out,
                                         hardBlocked, cooldownUntil, clock))
             /\ last' = Step(CurKey, CurEntry, "poll", "ready", TRUE, out,
                                         hardBlocked, cooldownUntil, clock)
    /\ UNCHANGED <<env, loaded, now_epoch, order, passes, lastCall, run>>

\* every entry was visited: state["pending"] = pending_map; return True
PassEnd ==
    /\ pc = "pass"
    /\ idx > Len(order)
    /\ ret' = "true"
    /\ pc' = "idle"
    /\ UNCHANGED <<clock, env, hardBlocked, cooldownUntil, pending, loaded, seen,
                   now_epoch, order, idx, checks_used, passes, log, last, lastCall, run>>

Next ==
    \/ PassStart
    \/ StepSkip
    \/ StepExpire
    \/ StepWait
    \/ StepBudget
    \/ StepPollNotReady
    \/ StepPollUpgrade
    \/ PassEnd

Spec == Init /\ [][Next]_vars

\* ------------------------------------------------------------------------
\* The webhook client on its own: the calls players.py and the other
\* runners make outside a pass (post_to_discord_embed, edit_discord_message)
\* ------------------------------------------------------------------------
\* a call as the caller sees it (arg is its webhook_url argument), with the
\* client state it started from and the client state it left
Call(op, want, arg, rp, out, hb, cd, clk) ==
    [op |-> op, want |-> want, r1 |-> rp[1], r2 |-> rp[2], ok |-> out.ok,
     code |-> out.code, msgId |-> out.msgId, backoff |-> out.backoff,
     reqs |-> out.reqs, url |-> out.url, arg |-> arg, hbBefore |-> hb,
     remBefore |-> webhook_cooldown_remaining(cd, clk), clkBefore |-> clk,
     cdAfter |-> out.cd, hbAfter |-> out.hb, clkAfter |-> out.clk]

\* the environments of a process that calls the client: one of the pass
\* (the client reads neither the expiry nor the poll budget), one with the
\* debug routing on, one without any endpoint configured
ClientEnvs == {e \in Envs : e.maxChecksRaw = NoVal} \cup {DebugEnv, BareEnv}

\* the webhook_url argument of a call: an endpoint, or None ("")
Endpoints == {"hookA", ""}

InitClient ==
    /\ clock = StartClock
    /\ env \in ClientEnvs
    /\ hardBlocked = FALSE
    /\ cooldownUntil = 0
    /\ pending = <<>>
    /\ loaded = pending
    /\ seen = [s \in Subjects |-> 0]
    /\ pc = "client"
    /\ now_epoch = 0
    /\ order = <<>>
    /\ idx = 1
    /\ checks_used = 0
    /\ ret = "none"
    /\ passes = 0
    /\ log = <<>>
    /\ last = NoStep
    /\ lastCall = NoCall
    /\ run = NoRun

PassVars == <<pending, loaded, seen, pc, now_epoch, order, idx, checks_used, ret,
              passes, log, last>>

\* the client state after a call
Called(out) ==
    /\ out.clk <= StartClock + ClientHorizon
    /\ clock' = out.clk
    /\ hardBlocked' = out.hb
    /\ cooldownUntil' = out.cd

\* post_to_discord_embed(embed, webhook_url, want_message_id, structured=True)
Create ==
    /\ pc = "client"
    /\ \E want \in BOOLEAN, arg \in Endpoints, rp \in ResponsePairs :
         LET out == post_to_discord_embed(want, arg, env, rp[1], rp[2],
                                          hardBlocked, cooldownUntil, clock)
         IN  /\ Called(out)
             /\ lastCall' = Call("create", want, arg, rp, out,
                                 hardBlocked, cooldownUntil, clock)
    /\ UNCHANGED <<env, PassVars, run>>

\* edit_discord_message(message_id, embed, webhook_url, structured=True)
EditCall ==
    /\ pc = "client"
    /\ \E arg \in Endpoints, rp \in ResponsePairs :
         LET out == edit_discord_message(Num(NewMsgId), arg, env, rp[1], rp[2],
                                         hardBlocked, cooldownUntil, clock)
         IN  /\ Called(out)
             /\ lastCall' = Call("edit", FALSE, arg, rp, out,
                                 hardBlocked, cooldownUntil, clock)
    /\ UNCHANGED <<env, PassVars, run>>

\* time passes between two calls, up to the end of the cooldown or up to the
\* instant just before it
ClientWait ==
    /\ pc = "client"
    /\ \E t \in {cooldownUntil, cooldownUntil - ClockReadGap} :
         /\ t > clock
         /\ t <= StartClock + ClientHorizon
         /\ clock' = t
    /\ UNCHANGED <<env, hardBlocked, cooldownUntil, PassVars, lastCall, run>>

NextClient ==
    \/ Create
    \/ EditCall
    \/ ClientWait

SpecClient == InitClient /\ [][NextClient]_vars

\* ------------------------------------------------------------------------
\* The migration and the normalization on their own, from any persisted
\* store: load_state, then _normalize_pending_map at the head of each pass
\* ------------------------------------------------------------------------
\* an entry of match m and subject id sid as some writer left it
RawEntry(m, sid) == [NewEntry(1, 1, 100, "hookA", Num(StartClock)) EXCEPT
                        !.matchId = m, !.steamId = sid]

RawKeys == {CompositeKey(1, 1), CompositeKey(1, 2), LegacyKey(1)}

\* under a composite key: the entry of the key, an entry of another match,
\* an entry without subject id, without message id or without endpoint,
\* something that is not a dict; under a
\* legacy key: an entry of either subject with or without a match id of its
\* own, entries whose subject id is a digit string, is no number or is
\* missing, something that is not a dict
RawValues(key) ==
    IF key.kind = "composite"
    THEN { RawEntry(Num(key.m), Num(key.s)), RawEntry(Num(2), Num(key.s)),
           RawEntry(Num(key.m), NoVal),
           [RawEntry(Num(key.m), Num(key.s)) EXCEPT !.messageId = NoVal],
           [RawEntry(Num(key.m), Num(key.s)) EXCEPT !.webhookBase = ""],
           NotADict }
    ELSE { RawEntry(NoVal, Num(1)), RawEntry(Num(1), Num(2)), RawEntry(Num(2), Num(1)),
           RawEntry(NoVal, Digits(2)), RawEntry(Num(1), Junk), RawEntry(Num(1), NoVal),
           NotADict }

RawStores ==
    UNION { {f \in [K -> UNION {RawValues(k) : k \in K}] :
                \A k \in K : f[k] \in RawValues(k)} :
            K \in SUBSET RawKeys }

InitNorm ==
    /\ clock = StartClock
    /\ env \in Envs
    /\ hardBlocked = FALSE
    /\ cooldownUntil = 0
    /\ pending \in RawStores
    /\ loaded = pending
    /\ seen = [s \in Subjects |-> 0]
    /\ pc = "gist"
    /\ now_epoch = 0
    /\ order = <<>>
    /\ idx = 1
    /\ checks_used = 0
    /\ ret = "none"
    /\ passes = 0
    /\ log = <<>>
    /\ last = NoStep
    /\ lastCall = NoCall
    /\ run = NoRun

\* load_state: the store of the gist document, migrated
LoadState ==
    /\ pc = "gist"
    /\ loaded' = pending
    /\ pending' = load_state(pending)
    /\ pc' = "loaded"
    /\ UNCHANGED <<clock, env, hardBlocked, cooldownUntil, seen, now_epoch, order, idx,
                   checks_used, ret, passes, log, last, lastCall, run>>

\* _normalize_pending_map(pending_map), on a store as loaded or as a caller
\* hands it over, and again at the head of every later pass
Normalize ==
    /\ pc \in {"gist", "loaded", "normalized"}
    /\ passes < MaxPasses
    /\ passes' = passes + 1
    /\ loaded' = pending
    /\ pending' = normalize_pending_map(pending)
    /\ pc' = "normalized"
    /\ UNCHANGED <<clock, env, hardBlocked, cooldownUntil, seen, now_epoch, order, idx,
                   checks_used, ret, log, last, lastCall, run>>

NextNorm ==
    \/ LoadState
    \/ Normalize

SpecNorm == InitNorm /\ [][NextNorm]_vars

\* ------------------------------------------------------------------------
\* Properties of the pass (specification Spec), read off the log of the
\* current pass: log[i] is the i-th entry the pass visited
\* ------------------------------------------------------------------------
\* the number of upstream polls among the first n entries visited
Polls(n) == Cardinality({j \in 1..n : j \in DOMAIN log /\ log[j].act = "poll"})

\* the entry was not due for expiry and was due for a recheck
Eligible(e) == e.act \in {"poll", "budget"}

\* the upgrade edit of the entry returned ok
Upgraded(e) == e.act = "poll" /\ e.edited /\ e.code = "ok"

PassReturned == pc = "idle" /\ ret # "none"

\* C1: whenever the edit of an entry (expiry or upgrade) returns hard_block
\* or rate_limited, that entry is the last one the pass visits, the pass
\* returns False and the entry is still in the store.
C1_AbortOnBlockedEdit ==
    \A i \in DOMAIN log :
        log[i].edited /\ log[i].code \in {"hard_block", "rate_limited"}
            => /\ i = Len(log)
               /\ pc = "idle"
               /\ ret = "false"
               /\ log[i].key \in DOMAIN pending

\* C2: an entry whose edit (expiry or upgrade) returned not_found is absent
\* from the store from then on and when the pass returns, and the pass goes
\* on to the next entry: it does not stop at that entry.
C2_NotFoundSelfHeals ==
    \A i \in DOMAIN log :
        log[i].edited /\ log[i].code = "not_found"
            => /\ log[i].key \notin DOMAIN pending
               /\ i = Len(log) => \/ pc = "pass" /\ idx = i + 1
                                  \/ pc = "idle" /\ ret = "true"

\* a pass that returned True after an expiry edit and then an upgrade edit
\* both came back not_found
C2_Witness ==
    /\ pc = "idle"
    /\ ret = "true"
    /\ \E i, j \in DOMAIN log :
         /\ i < j
         /\ log[i].act = "expire" /\ log[i].code = "not_found"
         /\ log[j].act = "poll" /\ log[j].edited /\ log[j].code = "not_found"
         /\ log[i].key \notin DOMAIN pending
         /\ log[j].key \notin DOMAIN pending

\* C3: for a complete entry the pass reaches, with postedAt = T0 > 0 and
\* effective expiry E: when now - T0 < E the pass issues no expired edit for
\* it and does not remove it as expired; when now - T0 >= E the pass issues
\* the expired edit and, if that edit returns ok, the entry is gone.
C3_ExpiryBoundary ==
    \A i \in DOMAIN log :
        LET e == log[i] IN
        e.act # "skip" /\ e.posted > 0
            => IF now_epoch - e.posted >= e.expires * MsPerSec
               THEN /\ e.act = "expire"
                    /\ e.edited
                    /\ e.code = "ok" => e.key \notin DOMAIN pending
               ELSE /\ e.act # "expire"
                    /\ \/ e.key \in DOMAIN pending
                       \/ e.act = "poll" /\ e.edited /\ e.code \in {"ok", "not_found"}

\* one pass in which an entry at exactly T0 + E was expired with an ok edit
\* and removed, and an entry one millisecond short of T0 + E was not
C3_Witness ==
    \E i, j \in DOMAIN log :
        /\ now_epoch - log[i].posted = log[i].expires * MsPerSec
        /\ log[i].act = "expire" /\ log[i].code = "ok"
        /\ log[i].key \notin DOMAIN pending
        /\ log[j].posted > 0
        /\ now_epoch - log[j].posted = log[j].expires * MsPerSec - 1
        /\ log[j].act \in {"wait", "budget", "poll"}
        /\ log[j].key \in DOMAIN pending

\* C4: for a complete, non-expired entry the pass reaches, with recheck
\* window W: when now - lastCheckedAt < W the pass issues no poll for it;
\* when now - lastCheckedAt >= W, or when it has no lastCheckedAt, it is
\* eligible, and an eligible entry is polled exactly when the polls issued
\* so far in the pass are fewer than the budget.
C4_RecheckGating ==
    \A i \in DOMAIN log :
        LET e == log[i] IN
        e.act \notin {"skip", "expire"}
            => /\ IF ~Truthy(e.checked) THEN Eligible(e)
                  ELSE IF now_epoch - iso_to_epoch(e.checked) < e.window * MsPerSec
                  THEN e.act = "wait"
                  ELSE Eligible(e)
               /\ Eligible(e) =>
                     (e.act = "poll" <=> Polls(i - 1) < env_max_checks_per_run(env))

\* one pass in which an entry checked exactly W ago was polled and an entry
\* checked one second less than its W ago was not
C4_Witness ==
    \E i, j \in DOMAIN log :
        /\ Truthy(log[i].checked)
        /\ now_epoch - iso_to_epoch(log[i].checked) = log[i].window * MsPerSec
        /\ log[i].act = "poll"
        /\ Truthy(log[j].checked)
        /\ now_epoch - iso_to_epoch(log[j].checked) = (log[j].window - 1) * MsPerSec
        /\ log[j].act = "wait"

\* whether an entry the pass has not visited is not due for expiry and due
\* for a recheck
EligibleEntry(entry) ==
    /\ Processable(entry, env)
    /\ ~ExpiryDue(entry, env, now_epoch)
    /\ should_recheck_now(entry, "", now_epoch)

\* the entries of the pass that were eligible: those visited, and those an
\* aborted pass did not get to
EligibleCount ==
    Cardinality({i \in DOMAIN log : Eligible(log[i])})
    + Cardinality({j \in DOMAIN order :
                      /\ j > Len(log)
                      /\ order[j] \in DOMAIN pending
                      /\ EligibleEntry(pending[order[j]])})

\* C5 (as stated): given N eligible entries and a budget K < N, a pass that
\* has returned issued exactly K upstream polls.
C5_ExactlyK ==
    PassReturned /\ EligibleCount > env_max_checks_per_run(env)
        => Polls(Len(log)) = env_max_checks_per_run(env)

\* C5 (amended): a pass never issues more than K polls; it visits the
\* entries in ascending order of postedAt and polls an eligible entry
\* exactly when fewer than K polls were issued before it, so the polled
\* entries are the oldest eligible ones; an entry skipped for the budget
\* stays in the store with its lastCheckedAt untouched; and a pass that
\* returns True with more than K eligible entries issued exactly K polls.
C5_BudgetOldestFirst ==
    LET K == env_max_checks_per_run(env) IN
    /\ Polls(Len(log)) <= K
    /\ \A i, j \in DOMAIN log : i < j => log[i].posted <= log[j].posted
    /\ \A i \in DOMAIN log :
          Eligible(log[i]) => (log[i].act = "poll" <=> Polls(i - 1) < K)
    /\ \A i \in DOMAIN log :
          log[i].act = "budget"
              => /\ log[i].key \in DOMAIN pending
                 /\ pending[log[i].key].lastCheckedAt = log[i].checked
    /\ pc = "idle" /\ ret = "true" /\ EligibleCount > K => Polls(Len(log)) = K

\* a pass that returned True with more eligible entries than the budget,
\* having polled the budget's worth and skipped a younger entry
C5_Witness ==
    /\ pc = "idle"
    /\ ret = "true"
    /\ EligibleCount > env_max_checks_per_run(env)
    /\ Polls(Len(log)) = env_max_checks_per_run(env)
    /\ \E i, j \in DOMAIN log :
         /\ log[i].act = "poll"
         /\ log[j].act = "budget"
         /\ log[i].posted < log[j].posted
         /\ log[j].key \in DOMAIN pending

\* C8 (as stated): when the upgrade edit of an entry returned ok, then after
\* the pass the entry is absent and state[subjectId] is the entry's matchId.
C8_UpgradeRecordsMatch ==
    PassReturned =>
        \A i \in DOMAIN log :
            Upgraded(log[i])
                => /\ log[i].key \notin DOMAIN pending
                   /\ seen[log[i].steamId.v] = log[i].matchId.v

\* C8 (amended): when the upgrade edit of an entry returned ok, the entry
\* is absent from then on, and state[subjectId] is the entry's matchId
\* unless a later entry of the same subject was upgraded in the same pass:
\* the marker is the matchId of the subject's last upgraded entry.
C8_UpgradeRecordsLatest ==
    \A i \in DOMAIN log :
        Upgraded(log[i])
            => /\ log[i].key \notin DOMAIN pending
               /\ (\A j \in DOMAIN log :
                      j > i /\ Upgraded(log[j]) => log[j].steamId # log[i].steamId)
                   => seen[log[i].steamId.v] = log[i].matchId.v

\* a pass that returned True after upgrading two entries of one subject: the
\* marker is the match of the second
C8_Witness ==
    /\ pc = "idle"
    /\ ret = "true"
    /\ \E i, j \in DOMAIN log :
         /\ i < j
         /\ Upgraded(log[i])
         /\ Upgraded(log[j])
         /\ log[i].steamId = log[j].steamId
         /\ log[i].matchId # log[j].matchId
         /\ seen[log[j].steamId.v] = log[j].matchId.v
         /\ log[i].key \notin DOMAIN pending
         /\ log[j].key \notin DOMAIN pending

\* C9: when the hard-block flag is set or the cooldown is active as the pass
\* reaches an entry, the pass issues no upstream poll and no edit for it.
C9_AbortBeforeEntry ==
    last.act \in {"poll", "expire"} => ~(last.hbBefore \/ last.cdBefore)

\* ------------------------------------------------------------------------
\* Properties of the webhook client (specification SpecClient)
\* ------------------------------------------------------------------------
\* C10: a create or an edit called with the hard-block flag set issues no
\* network request.
C10_FlagChecked ==
    lastCall.op \in {"create", "edit"} /\ lastCall.hbBefore => lastCall.reqs = 0

\* ------------------------------------------------------------------------
\* Properties of the normalization (specification SpecNorm); loaded is the
\* store before the last normalization, pending the store after it
\* ------------------------------------------------------------------------
\* the (matchId, subjectId) pair of the entry under k
PairOf(k) ==
    <<IF Truthy(pending[k].matchId) THEN pending[k].matchId.v ELSE k.m,
      pending[k].steamId.v>>

\* C6: a second normalization changes nothing.
C6_NormalizeIdempotent ==
    pc = "normalized" => normalize_pending_map(pending) = pending

Resolved(c) == c.op \in {"create", "edit"} /\ ensure_webhook_url(c.arg, env) # ""

\* the call found no cooldown running and sent its first request
Sent(c) == Resolved(c) /\ c.remBefore = 0

\* the response the call ended on: the retry response when a retry was made
FinalResp(c) == IF c.reqs = 2 THEN c.r2 ELSE c.r1

\* C11: a create or an edit called while the global cooldown is active
\* returns a failed outcome with code rate_limited and a retry-after equal
\* to the remaining cooldown, and issues no network request, whatever its
\* endpoint argument (an endpoint, or none with a default configured).
C11_CooldownShortCircuit ==
    (Resolved(lastCall) /\ lastCall.remBefore > 0) =>
        /\ ~lastCall.ok
        /\ lastCall.code = "rate_limited"
        /\ lastCall.backoff = lastCall.remBefore
        /\ lastCall.reqs = 0
        /\ lastCall.cdAfter = cooldownUntil
        /\ lastCall.clkAfter = lastCall.clkBefore

\* a create without endpoint argument, resolved from the default, was called
\* one ClockReadGap before the end of a cooldown
C11_Witness ==
    /\ lastCall.op = "create"
    /\ lastCall.arg = ""
    /\ Resolved(lastCall)
    /\ lastCall.remBefore = ClockReadGap
    /\ lastCall.code = "rate_limited"

\* C12: a first response that is rate-limited with a normalized retry-after
\* above 10 seconds makes the create or the edit activate the global
\* cooldown for that duration and return rate_limited after one request,
\* without a retry.
C12_LongBackoffNoRetry ==
    (Sent(lastCall) /\ lastCall.r1.status = 429
        /\ parse_retry_after(lastCall.r1) > COOLDOWN_THRESHOLD_MS) =>
        /\ lastCall.code = "rate_limited"
        /\ lastCall.reqs = 1
        /\ lastCall.cdAfter >= lastCall.clkBefore + parse_retry_after(lastCall.r1)

\* C13: a first response that is rate-limited with a retry-after of at most
\* 10 seconds, followed by a rate-limited response to the single retry,
\* makes the create or the edit return rate_limited with the global
\* cooldown active at the time it returns.
C13_SecondRateLimitEscalates ==
    (Sent(lastCall) /\ lastCall.r1.status = 429
        /\ parse_retry_after(lastCall.r1) <= COOLDOWN_THRESHOLD_MS
        /\ lastCall.r2.status = 429 /\ ~lastCall.r2.cf) =>
        /\ lastCall.code = "rate_limited"
        /\ webhook_cooldown_active(lastCall.cdAfter, lastCall.clkAfter)

\* C14: a response that carries the hard-block signature, be it the first
\* response or the response to the retry, makes the create or the edit set
\* the hard-block flag and return hard_block.
C14_HardBlockDetected ==
    (Sent(lastCall) /\ (lastCall.r1.cf \/ (lastCall.reqs = 2 /\ lastCall.r2.cf))) =>
        /\ lastCall.code = "hard_block"
        /\ lastCall.hbAfter

\* C15: a create that asked for the message id returns ok only when the
\* success response (first or retry) holds a message id, and then returns
\* that id; a success response without one makes it return other_error.
C15_MessageIdOrError ==
    (Sent(lastCall) /\ lastCall.op = "create" /\ lastCall.want
        /\ FinalResp(lastCall).status \in {200, 204}) =>
        IF FinalResp(lastCall).body = "id"
        THEN lastCall.ok /\ lastCall.msgId = Num(NewMsgId)
        ELSE ~lastCall.ok /\ lastCall.code = "other_error"

\* ------------------------------------------------------------------------
\* Properties of the normalization (specification SpecNorm), continued
\* ------------------------------------------------------------------------
\* C19: after normalization every entry of the store is a dict with a
\* non-empty subjectId, matchId, messageId and webhookBase (matchId read as
\* the pass reads it, from the entry or else from the key).
C19_NormalizedComplete ==
    pc = "normalized" =>
        \A k \in DOMAIN pending :
            /\ pending[k].isDict
            /\ Truthy(pending[k].steamId)
            /\ Truthy(MatchIdOrKey(k, pending[k]))
            /\ Truthy(pending[k].messageId)
            /\ pending[k].webhookBase # ""

\* the legacy keys of a store whose entry is a dict with an integer subject
\* id: the entries for which "<matchId>:<subjectId>" can be built
Migratable(pm) ==
    {l \in DOMAIN pm : l.kind = "legacy" /\ pm[l].isDict /\ IntOk(pm[l].steamId)}

\* the normalization keeps a dict that has a subject id
Kept(val) == val.isDict /\ val.steamId.k # "none"

\* C20 (as stated): normalization moves a legacy entry to its composite key
\* when that key is not in the store; when it is, the composite entry and
\* the legacy entry are both in the store afterwards, each as it was.
C20_MigrateOrKeepBoth ==
    pc = "normalized" =>
        \A l \in Migratable(loaded) :
            LET t == MigratedKey(l, loaded[l]) IN
            IF t \notin DOMAIN loaded
            THEN /\ l \notin DOMAIN pending
                 /\ t \in DOMAIN pending /\ pending[t] = loaded[l]
            ELSE /\ l \in DOMAIN pending /\ pending[l] = loaded[l]
                 /\ t \in DOMAIN pending /\ pending[t] = loaded[t]

\* C20 (amended): normalization and the migration of load_state move a
\* legacy entry with an integer subject id to its composite key when that
\* key is not in the store; when it is, the legacy entry stays under its
\* key as it was and the composite key is never overwritten: it holds the
\* entry it held before, or, after normalization, nothing when that entry
\* was corrupt (no dict, or no subject id) and was dropped.
C20_MigrateNeverOverwrites ==
    pc \in {"loaded", "normalized"} =>
        \A l \in Migratable(loaded) :
            LET t == MigratedKey(l, loaded[l]) IN
            IF t \notin DOMAIN loaded
            THEN /\ l \notin DOMAIN pending
                 /\ t \in DOMAIN pending /\ pending[t] = loaded[l]
            ELSE /\ l \in DOMAIN pending /\ pending[l] = loaded[l]
                 /\ t \in DOMAIN pending => pending[t] = loaded[t]
                 /\ t \notin DOMAIN pending => pc = "normalized" /\ ~Kept(loaded[t])

\* a normalization found a legacy entry next to a different entry under its
\* composite key and kept both
C20_Witness ==
    /\ pc = "normalized"
    /\ \E l \in Migratable(loaded) :
          LET t == MigratedKey(l, loaded[l]) IN
          /\ t \in DOMAIN loaded
          /\ loaded[t] # loaded[l]
          /\ t \in DOMAIN pending /\ pending[t] = loaded[t]
          /\ l \in DOMAIN pending /\ pending[l] = loaded[l]

\* ------------------------------------------------------------------------
\* Properties of the pass (specification Spec), continued
\* ------------------------------------------------------------------------
\* C18: every edit request the pass issues for an entry goes to the
\* webhookBase stored in the entry.
C18_EditToStoredBase ==
    (last.edited /\ last.reqs > 0) => last.url = last.entry.webhookBase

\* ------------------------------------------------------------------------
\* runner.py: run_bot, with players.py: process_player
\* ------------------------------------------------------------------------
\* CONFIG["players"]: the subjects of a run, in the order of the config
Players == <<1>>

\* the match get_latest_new_match reports as the latest of a subject
LatestMatches == {2, 3}

\* what the fetch of the latest match gives process_player: nothing (no new
\* match or a failed fetch), data without the subject's record, a record
\* without imp, a record with an imp
LatestResults == {"none", "no_player", "imp_null", "ready"}

\* state[str(steam_id)] of a persisted state: the newest match of the
\* subject that has an entry, 0 without one
LastSeen(pm, s) ==
    LET ms == {pm[k].matchId.v : k \in {x \in DOMAIN pm :
                  pm[x].isDict /\ pm[x].steamId = Num(s) /\ pm[x].matchId.k = "num"}}
    IN  IF ms = {} THEN 0 ELSE CHOOSE m \in ms : \A n \in ms : n <= m

\* the persisted states a run starts from: a store of at most one entry in
\* any environment of the pass, or the store of three entries in a process
\* with a poll budget of one
RunSeedStates ==
    { st \in SeedStates :
        \/ Cardinality(DOMAIN st.pending) <= 1 /\ st.env \in Envs
        \/ Cardinality(DOMAIN st.pending) = 3 }

\* run_bot has loaded the state and is about to call the pass
InitRun ==
    /\ clock = StartClock
    /\ \E st \in RunSeedStates :
         /\ env = st.env
         /\ pending = st.pending
    /\ hardBlocked = FALSE
    /\ cooldownUntil = 0
    /\ loaded = pending
    /\ seen = [s \in Subjects |-> LastSeen(pending, s)]
    /\ pc = "idle"
    /\ now_epoch = 0
    /\ order = <<>>
    /\ idx = 1
    /\ checks_used = 0
    /\ ret = "none"
    /\ passes = 0
    /\ log = <<>>
    /\ last = NoStep
    /\ lastCall = NoCall
    /\ \E b \in BOOLEAN : run = [NoRun EXCEPT !.stage = "pending", !.partyCorrupt = b]

RunVars == <<clock, env, hardBlocked, cooldownUntil, pending, loaded, seen, pc,
             now_epoch, order, idx, checks_used, passes, log, last, lastCall>>

\* the pass is called by run_bot or by process_player
RunPass ==
    /\ run.stage \in {"pending", "player"}
    /\ ret = "none"
    /\ CallPass

\* the loops over partyPending and duelPending are empty: return True
RunPassEnd ==
    /\ ~run.partyCorrupt
    /\ PassEnd

\* sorted(party_pending_map.items(), key=_posted_at_epoch) calls .get on a
\* value that is not a dict: the exception leaves the pass
PassRaise ==
    /\ run.partyCorrupt
    /\ pc = "pass"
    /\ idx > Len(order)
    /\ ret' = "raised"
    /\ pc' = "idle"
    /\ UNCHANGED <<clock, env, hardBlocked, cooldownUntil, pending, loaded, seen,
                   now_epoch, order, idx, checks_used, passes, log, last, lastCall, run>>

\* a variant: the stop signal is ignored
NeverStop(r) == FALSE

\* not ok: the pass returned False, or raised (ok = False in the handler)
StopSignal(r) == r \in {"false", "raised"}

\* run_bot after its call of the pass: on the stop signal it goes to
\* save_state and returns, else it enters the loop over the players
AfterPendingPass ==
    /\ run.stage = "pending"
    /\ pc = "idle"
    /\ ret # "none"
    /\ run' = [run EXCEPT !.first = ret,
                          !.polls = @ + Polls(Len(log)),
                          !.stage = IF StopSignal(ret) THEN "save" ELSE "loop"]
    /\ UNCHANGED <<RunVars, ret>>

\* the head of the loop: break when the players are exhausted or the client
\* is blocked, else call process_player for the next subject
LoopHead ==
    /\ run.stage = "loop"
    /\ IF \/ run.i > Len(Players)
          \/ hardBlocked
          \/ webhook_cooldown_active(cooldownUntil, clock)
       THEN /\ run' = [run EXCEPT !.stage = "save"]
            /\ ret' = ret
       ELSE /\ run' = [run EXCEPT !.stage = "player", !.calls = @ + 1]
            /\ ret' = "none"
    /\ UNCHANGED RunVars

\* process_player after its call of the pass: an exception leaves
\* process_player and run_bot breaks without counting the subject; on False,
\* or with the client blocked, process_player returns False and run_bot
\* counts the subject and breaks; else process_player looks for a new match.
\* The locals of the pass and the record of what it did end here.
PlayerPassReturned ==
    /\ run.stage = "player"
    /\ pc = "idle"
    /\ ret # "none"
    /\ run' = [run EXCEPT
                 !.polls = @ + Polls(Len(log)),
                 !.processed = IF ret = "raised" THEN @ ELSE
                               IF ret = "false" \/ abort_if_blocked(hardBlocked, cooldownUntil, clock)
                               THEN @ + 1 ELSE @,
                 !.stage = IF ret = "true" /\ ~abort_if_blocked(hardBlocked, cooldownUntil, clock)
                           THEN "match" ELSE "save"]
    /\ now_epoch' = 0
    /\ order' = <<>>
    /\ idx' = 1
    /\ checks_used' = 0
    /\ log' = <<>>
    /\ last' = NoStep
    /\ UNCHANGED <<clock, env, hardBlocked, cooldownUntil, pending, loaded, seen, pc,
                   ret, passes, lastCall>>

\* pending_map with the legacy entry of match m moved to the composite key
\* when the composite key holds nothing and the legacy entry is the subject's
WithLegacyMoved(pm, m, s) ==
    IF /\ CompositeKey(m, s) \notin DOMAIN pm
       /\ LegacyKey(m) \in DOMAIN pm
       /\ pm[LegacyKey(m)].isDict
       /\ pm[LegacyKey(m)].steamId = Num(s)
    THEN (CompositeKey(m, s) :> pm[LegacyKey(m)]) @@ Remove(pm, LegacyKey(m))
    ELSE pm

\* what the rest of process_player leaves: the store, the markers, the
\* client state and the value returned
Left(pm, sn, out, cont) ==
    [pending |-> pm, seen |-> sn, hb |-> out.hb, cd |-> out.cd, clk |-> out.clk,
     cont |-> cont, code |-> out.code, ok |-> out.ok, msgId |-> out.msgId,
     url |-> out.url]

\* after a failed post or edit: return False when the client is blocked
GoesOn(out) == ~out.hb /\ ~webhook_cooldown_active(out.cd, out.clk)

\* an entry as it was written before webhookBase was stored
FallbackEntryWithoutBase(m, s, out, resolved) ==
    [NewEntry(m, s, NewMsgId, "", Num(out.clk)) EXCEPT !.messageId = out.msgId]

\* the pending entry process_player writes after its placeholder post
FallbackEntry(m, s, out, resolved) ==
    [NewEntry(m, s, NewMsgId, resolved, Num(out.clk)) EXCEPT !.messageId = out.msgId]

\* process_player from get_latest_new_match on, for subject s, the latest
\* match m, the result of the fetch and the responses rp of the endpoint
process_player(s, m, found, rp, pm0, sn, e, hb, cd, clk) ==
    LET idle     == Outcome(TRUE, NoVal, "none", 0, hb, cd, clk, 0, "")
        key      == CompositeKey(m, s)
        pm       == WithLegacyMoved(pm0, m, s)
        resolved == ensure_webhook_url(config_webhook_url(e), e)
        marked   == [sn EXCEPT ![s] = m]
    IN
    IF found = "none" \/ m = sn[s]
    THEN Left(pm0, sn, idle, TRUE)
    ELSE IF found = "no_player"
    THEN Left(pm0, sn, idle, TRUE)
    ELSE IF found = "imp_null"
    THEN IF resolved = ""
         THEN Left(pm, marked, idle, TRUE)
         ELSE LET out == post_to_discord_embed(TRUE, resolved, e, rp[1], rp[2], hb, cd, clk)
              IN  IF out.ok
                  THEN Left((key :> FallbackEntry(m, s, out, resolved)) @@ pm,
                            marked, out, TRUE)
                  ELSE Left(pm, sn, out, GoesOn(out))
    ELSE IF key \in DOMAIN pm /\ Truthy(pm[key].messageId)
    THEN LET out == edit_discord_message(pm[key].messageId, BaseUrl(pm[key], e), e,
                                         rp[1], rp[2], hb, cd, clk)
         IN  IF out.ok
             THEN Left(Remove(Remove(pm, key), LegacyKey(m)), marked, out, TRUE)
             ELSE Left(pm, sn, out, GoesOn(out))
    ELSE IF resolved = ""
    THEN Left(pm, marked, idle, TRUE)
    ELSE LET out == post_to_discord_embed(FALSE, resolved, e, rp[1], rp[2], hb, cd, clk)
         IN  IF out.ok
             THEN Left(pm, marked, out, TRUE)
             ELSE Left(pm, sn, out, GoesOn(out))

\* whether process_player edits the pending entry of the match: the data is
\* ready and the store holds an entry with a message id under the composite
\* key (after the move of a legacy entry)
EditsPending(s, m, found, pm0) ==
    /\ found = "ready"
    /\ CompositeKey(m, s) \in DOMAIN WithLegacyMoved(pm0, m, s)
    /\ Truthy(WithLegacyMoved(pm0, m, s)[CompositeKey(m, s)].messageId)

\* whether process_player posts a placeholder for the match: the match is
\* new, the subject's record has no imp and a webhook is configured
CreatesPlaceholder(s, m, found, sn, e) ==
    /\ found = "imp_null"
    /\ m # sn[s]
    /\ ensure_webhook_url(config_webhook_url(e), e) # ""

\* the rest of process_player and the end of the loop body: the subject is
\* counted; run_bot breaks on False and goes to the next subject on True
PlayerMatch ==
    /\ run.stage = "match"
    /\ \E found \in LatestResults :
       \E m \in IF found \in {"none", "no_player"} THEN {seen[Players[run.i]]}
                 ELSE LatestMatches \ {seen[Players[run.i]]} :
       \E rp \in IF found \in {"none", "no_player"}
                  THEN {<<Resp(0, FALSE, NoVal, "none"), Resp(0, FALSE, NoVal, "none")>>}
                  ELSE ResponsePairs :
         LET r == process_player(Players[run.i], m, found, rp, pending, seen, env,
                                 hardBlocked, cooldownUntil, clock)
         IN  /\ r.clk <= MaxClock
             /\ pending' = r.pending
             /\ seen' = r.seen
             /\ hardBlocked' = r.hb
             /\ cooldownUntil' = r.cd
             /\ clock' = r.clk
             /\ run' = [run EXCEPT !.processed = @ + 1,
                                   !.i = IF r.cont THEN @ + 1 ELSE @,
                                   !.stage = IF r.cont THEN "loop" ELSE "save",
                                   !.edit = IF EditsPending(Players[run.i], m, found, pending)
                                            THEN [made |-> TRUE,
                                                  key |-> CompositeKey(m, Players[run.i]),
                                                  code |-> r.code]
                                            ELSE NoEdit,
                                   !.post = IF CreatesPlaceholder(Players[run.i], m, found,
                                                                  seen, env)
                                            THEN [made |-> TRUE,
                                                  key |-> CompositeKey(m, Players[run.i]),
                                                  ok |-> r.ok,
                                                  msgId |-> r.msgId,
                                                  url |-> r.url,
                                                  before |-> seen[Players[run.i]],
                                                  had |-> CompositeKey(m, Players[run.i])
                                                            \in DOMAIN pending]
                                            ELSE NoPost]
    /\ UNCHANGED <<env, loaded, pc, now_epoch, order, idx, checks_used, ret, passes,
                   log, last, lastCall>>

\* save_state(state)
SaveState ==
    /\ run.stage = "save"
    /\ run' = [run EXCEPT !.stage = "done",
                          !.saved = [pending |-> pending, seen |-> seen, called |-> TRUE]]
    /\ UNCHANGED <<RunVars, ret>>

NextRun ==
    \/ RunPass
    \/ StepSkip
    \/ StepExpire
    \/ StepWait
    \/ StepBudget
    \/ StepPollNotReady
    \/ StepPollUpgrade
    \/ RunPassEnd
    \/ PassRaise
    \/ AfterPendingPass
    \/ LoopHead
    \/ PlayerPassReturned
    \/ PlayerMatch
    \/ SaveState

SpecRun == InitRun /\ [][NextRun]_vars

\* ------------------------------------------------------------------------
\* Properties of a run (specification SpecRun)
\* ------------------------------------------------------------------------
\* C16: when the first pass of a run returns the stop signal or raises,
\* run_bot calls process_player for no subject and calls save_state with
\* the state as the pass left it: every entry the pass removed before it
\* stopped is absent from the saved store.
C16_AbortStopsAndSaves ==
    (run.stage = "done" /\ run.first \in {"false", "raised"}) =>
        /\ run.calls = 0
        /\ run.processed = 0
        /\ run.saved.called
        /\ run.saved.pending = pending
        /\ run.saved.seen = seen
        /\ \A j \in DOMAIN log :
              (log[j].edited /\ log[j].code \in {"ok", "not_found"}) =>
                  log[j].key \notin DOMAIN run.saved.pending

\* a run whose first pass removed an entry, then returned the stop signal,
\* and that has saved the state
C16_Witness ==
    /\ run.stage = "done"
    /\ run.first = "false"
    /\ run.saved.called
    /\ \E j \in DOMAIN log :
          /\ log[j].edited
          /\ log[j].code \in {"ok", "not_found"}
          /\ log[j].key \in DOMAIN loaded
          /\ log[j].key \notin DOMAIN run.saved.pending

\* the upstream polls of the run so far: those of the passes that have
\* returned and those of the pass under way
RunPolls == run.polls + (IF pc = "pass" \/ (pc = "idle" /\ ret # "none" /\ run.stage \in {"pending", "player"})
                         THEN Polls(Len(log)) ELSE 0)

\* C17: within one run the pass is executed once, and the upstream polls
\* issued for pending entries during the run do not exceed the configured
\* maximum per run.
C17_OnePassBoundedPolls ==
    /\ passes <= 1
    /\ RunPolls <= env_max_checks_per_run(env)

\* ------------------------------------------------------------------------
\* C21: an entry whose postedAt is absent or does not parse (epoch value 0)
\* is treated as infinitely old: the pass that visits it, when the entry has
\* the ids, the message id and the endpoint the pass needs, treats it as due
\* for expiry and issues the expired edit for it.
\* ------------------------------------------------------------------------
C21_UnparseableExpires ==
    \A i \in DOMAIN log :
        (log[i].posted = 0 /\ log[i].act # "skip") =>
            (log[i].act = "expire" /\ log[i].edited)

\* ------------------------------------------------------------------------
\* The pass with exceptions: a call made while an entry is handled raises
\* ------------------------------------------------------------------------
\* the calls of the expiry branch that may raise: the snapshot formatter and
\* the edit call (before its first request)
ExpiryRaisers == {"format", "edit"}

\* the calls of the upgrade branch that may raise: the stats fetch, the
\* content formatter and the edit call (before its first request)
UpgradeRaisers == {"fetch", "format", "edit"}

\* a variant: the stats fetch is called outside the try
EscapesFromFetch(by) == by = "fetch"

\* whether an exception raised by the call leaves the pass: each of these
\* calls is inside a try whose handler is `except Exception`
Escapes(by) == FALSE

\* where the pass stands after the exception: at the next entry, or ended
AfterRaise(by) ==
    IF Escapes(by)
    THEN /\ pc' = "idle"
         /\ ret' = "raised"
         /\ idx' = idx
    ELSE /\ pc' = pc
         /\ ret' = ret
         /\ idx' = idx + 1

\* the expiry branch raises inside its try: the exception is printed, the
\* entry is left as it is and the loop goes on with the next entry
StepExpireRaise ==
    /\ InPass
    /\ Processable(CurEntry, env)
    /\ ExpiryDue(CurEntry, env, now_epoch)
    /\ \E by \in ExpiryRaisers :
         /\ log' = Append(log, Event(CurKey, CurEntry, "raise_expire", "none", FALSE,
                                     NoOutcome, hardBlocked, cooldownUntil, clock))
         /\ last' = Step(CurKey, CurEntry, "raise_expire", by, FALSE, NoOutcome,
                                     hardBlocked, cooldownUntil, clock)
         /\ AfterRaise(by)
    /\ UNCHANGED <<clock, env, hardBlocked, cooldownUntil, pending, loaded, seen,
                   now_epoch, order, checks_used, passes, lastCall, run>>

\* the upgrade branch raises inside its try. When fetch_full_match raises,
\* neither checks_used += 1 nor entry["lastCheckedAt"] = now_iso() is
\* reached; when the formatter or the edit call raises, both were done. The
\* exception is printed and the loop goes on with the next entry
StepPollRaise ==
    /\ InPass
    /\ Processable(CurEntry, env)
    /\ ~ExpiryDue(CurEntry, env, now_epoch)
    /\ should_recheck_now(CurEntry, CurKey, now_epoch)
    /\ checks_used < env_max_checks_per_run(env)
    /\ IntOk(CurEntry.matchId)
    /\ \E by \in UpgradeRaisers :
         /\ by # "fetch" => Ready(CurEntry, "ready")
         /\ checks_used' = IF by = "fetch" THEN checks_used ELSE checks_used + 1
         /\ pending' = IF by = "fetch" THEN pending
                       ELSE [pending EXCEPT ![CurKey].lastCheckedAt = now_iso(clock)]
         /\ log' = Append(log, Event(CurKey, CurEntry,
                                     IF by = "fetch" THEN "raise_fetch" ELSE "raise_upgrade",
                                     "none", FALSE, NoOutcome,
                                     hardBlocked, cooldownUntil, clock))
         /\ last' = Step(CurKey, CurEntry,
                                     IF by = "fetch" THEN "raise_fetch" ELSE "raise_upgrade",
                                     by, FALSE, NoOutcome,
                                     hardBlocked, cooldownUntil, clock)
         /\ AfterRaise(by)
    /\ UNCHANGED <<clock, env, hardBlocked, cooldownUntil, loaded, seen, now_epoch,
                   order, passes, lastCall, run>>

NextErr ==
    \/ PassStart
    \/ StepSkip
    \/ StepExpire
    \/ StepWait
    \/ StepBudget
    \/ StepPollNotReady
    \/ StepPollUpgrade
    \/ PassEnd
    \/ StepExpireRaise
    \/ StepPollRaise

SpecErr == Init /\ [][NextErr]_vars

\* ------------------------------------------------------------------------
\* C22: for every upstream poll attempted for an entry during a pass, the
\* entry's lastCheckedAt is set to the time of the attempt, whether the poll
\* returned data, returned nothing, signalled quota exceeded or failed with
\* an error. (After an upgrade edit the clock may have moved on by the
\* edit's backoff sleep; the recorded time then lies between the start of
\* the pass and the present.)
\* ------------------------------------------------------------------------
C22_AttemptRecorded ==
    (last.act \in {"poll", "raise_fetch", "raise_upgrade"} /\ last.key \in DOMAIN pending)
        => LET checked == pending[last.key].lastCheckedAt IN
           /\ Truthy(checked)
           /\ IF last.edited
              THEN now_epoch <= iso_to_epoch(checked) /\ iso_to_epoch(checked) <= clock
              ELSE checked = now_iso(clock)

\* ------------------------------------------------------------------------
\* C23: an entry that is due for expiry (complete, postedAt = T0 > 0,
\* now - T0 >= E) and that the pass reaches gets the expired edit, whatever
\* its lastCheckedAt, its recheck window and the polls already issued in the
\* pass; the expiry path issues no upstream poll, does not consume poll
\* budget and does not change lastCheckedAt: the polls counted by the pass
\* are those of its poll steps, and an entry that stays after its expired
\* edit is as it was.
\* ------------------------------------------------------------------------
C23_ExpiryFirst ==
    /\ \A i \in DOMAIN log :
          LET e == log[i] IN
          (e.act # "skip" /\ e.posted > 0
             /\ now_epoch - e.posted >= e.expires * MsPerSec)
              => e.act = "expire" /\ e.edited
    /\ pc = "pass" => checks_used = Polls(Len(log))
    /\ last.act = "expire"
          => /\ last.fetch = "none"
             /\ last.key \in DOMAIN pending => pending[last.key] = last.entry

\* an entry checked less than its recheck window ago is expired
C23_Witness ==
    \E i \in DOMAIN log :
        /\ log[i].act = "expire" /\ log[i].edited
        /\ Truthy(log[i].checked)
        /\ now_epoch - iso_to_epoch(log[i].checked) < log[i].window * MsPerSec

\* an entry is expired after the budget of the pass was used up, and stays
\* in the store unchanged when its edit fails
C23_WitnessBudget ==
    /\ last.act = "expire"
    /\ last.key \in DOMAIN pending
    /\ Polls(Len(log)) >= env_max_checks_per_run(env)

\* ------------------------------------------------------------------------
\* C24: an exception raised while one entry is handled (by the stats fetch,
\* the content formatter or the edit call) does not leave the pass: the
\* entry stays in the store, the pass goes on with the next entry, never
\* ends by raising, and a pass that returned True visited every entry.
\* ------------------------------------------------------------------------
Raised(e) == e.act \in {"raise_expire", "raise_fetch", "raise_upgrade"}

C24_RaiseContained ==
    /\ ret # "raised"
    /\ \A i \in DOMAIN log : Raised(log[i]) => log[i].key \in DOMAIN pending
    /\ Raised(last) => ret \in {"none", "true"} /\ idx = Len(log) + 1
    /\ pc = "idle" /\ ret = "true" => Len(log) = Len(order)

\* a pass that returned True after an exception for one entry, with that
\* entry still stored and a later entry upgraded or expired
C24_Witness ==
    /\ pc = "idle"
    /\ ret = "true"
    /\ \E i, j \in DOMAIN log :
         /\ i < j
         /\ Raised(log[i])
         /\ log[i].key \in DOMAIN pending
         /\ log[j].edited /\ log[j].code = "ok"

\* ------------------------------------------------------------------------
\* C25: whenever a caller's edit of a pending entry's message gets a
\* not-found/gone response, the caller removes the entry from the store:
\* the pass after its expired or upgrade edit, and process_player after the
\* upgrade edit it makes for a fresh match that has a pending entry.
\* ------------------------------------------------------------------------
C25_NotFoundDropsEverywhere ==
    /\ (last.edited /\ last.code = "not_found") => last.key \notin DOMAIN pending
    /\ (run.edit.made /\ run.edit.code = "not_found") => run.edit.key \notin DOMAIN pending

\* ------------------------------------------------------------------------
\* The pass run again and again: passes keep being called, time advances to
\* every instant at which an entry becomes due, no edit is rate limited or
\* blocked, and an edit that keeps being tried eventually returns ok or
\* not_found
\* ------------------------------------------------------------------------
\* the environments, each with an expiry duration within the horizon of the
\* clock, so that every entry with a postedAt becomes due
LiveEnvs == { [e EXCEPT !.expiryRaw = Digits(MIN_EXPIRY + 2)] : e \in Envs }

InitLive ==
    /\ clock = StartClock
    /\ env \in LiveEnvs
    /\ \E g \in SeedStores : pending = load_state(g)
    /\ hardBlocked = FALSE
    /\ cooldownUntil = 0
    /\ loaded = pending
    /\ seen = [s \in Subjects |-> 0]
    /\ pc = "idle"
    /\ now_epoch = 0
    /\ order = <<>>
    /\ idx = 1
    /\ checks_used = 0
    /\ ret = "none"
    /\ passes = 0
    /\ log = <<>>
    /\ last = NoStep
    /\ lastCall = NoCall
    /\ run = NoRun

\* one more pass, not counted
LivePass ==
    /\ BeginPass
    /\ UNCHANGED passes

\* the client is neither hard-blocked nor cooled down by the edit, and the
\* edit does not sleep
CalmEdit ==
    /\ hardBlocked' = hardBlocked
    /\ cooldownUntil' = cooldownUntil
    /\ clock' = clock

LiveExpire == StepExpire /\ CalmEdit

LiveUpgrade == StepPollUpgrade /\ CalmEdit

\* the edit of the current entry returned ok or not_found
EditDrops == CurKey \notin DOMAIN pending'

NextLive ==
    \/ LivePass
    \/ StepSkip
    \/ LiveExpire
    \/ StepWait
    \/ StepBudget
    \/ StepPollNotReady
    \/ LiveUpgrade
    \/ PassEnd

\* the pass runs to its end and is called again (the code is sequential and
\* the run driver is triggered again); time moves on between passes; an
\* edit tried again and again eventually returns ok or not_found
SpecLive ==
    /\ InitLive
    /\ [][NextLive]_vars
    /\ WF_vars(NextLive)
    /\ SF_vars(LivePass /\ clock' > clock)
    /\ SF_vars(LiveExpire /\ EditDrops)
    /\ SF_vars(LiveUpgrade /\ EditDrops)

\* ------------------------------------------------------------------------
\* C26: every entry in the pending store eventually leaves it, when passes
\* keep being run, time advances and edits eventually return ok or
\* not_found.
\* ------------------------------------------------------------------------
C26_EveryEntryLeaves ==
    \A k \in SeedKeys : (k \in DOMAIN pending) ~> (k \notin DOMAIN pending)

\* the same for the entries that have the ids, the message id and the
\* endpoint the pass needs and a postedAt that parses
C26_CompleteEntriesLeave ==
    \A k \in SeedKeys :
        (k \in DOMAIN pending /\ Processable(pending[k], env)
           /\ posted_at_epoch(pending[k]) > 0)
            ~> (k \notin DOMAIN pending)

\* the same for the entries that have the ids, the message id and the
\* endpoint the pass needs, whatever their postedAt
C26_ProcessableEntriesLeave ==
    \A k \in SeedKeys :
        (k \in DOMAIN pending /\ Processable(pending[k], env))
            ~> (k \notin DOMAIN pending)

\* ------------------------------------------------------------------------
\* C27: the process-wide hard-block flag is monotone: once a create or edit
\* call has set it, no step of the process resets it to false.
\* ------------------------------------------------------------------------
C27_HardBlockMonotone == [][hardBlocked => hardBlocked']_vars

\* an edit made while the flag was set returned ok, and the flag is still
\* set
C27_Witness ==
    /\ hardBlocked
    /\ last.hbBefore
    /\ last.edited
    /\ last.code = "ok"

\* ------------------------------------------------------------------------
\* C28: a single create or edit call issues at most two network requests,
\* the first attempt and at most one retry, and issues the retry only after
\* a first response with the rate-limited status (429).
\* ------------------------------------------------------------------------
C28_AtMostOneRetry ==
    lastCall.op \in {"create", "edit"}
        => /\ lastCall.reqs \in {0, 1, 2}
           /\ lastCall.reqs = 2 => lastCall.r1.status = 429
           /\ lastCall.reqs = 0 => ~Sent(lastCall)

\* an edit that slept after a rate-limited first response, retried once and
\* ended on a second rate-limited response without a third request
C28_Witness ==
    /\ lastCall.op = "edit"
    /\ lastCall.r1.status = 429
    /\ lastCall.r2.status = 429
    /\ lastCall.reqs = 2

\* ------------------------------------------------------------------------
\* C29: every structured outcome of a create or an edit has its code in
\* {ok, rate_limited, hard_block, not_found, other_error} and ok = true
\* exactly when code = ok; the call returns an outcome for every response
\* and for a transport failure, and a transport exception or a timeout, of
\* the first request or of the retry, gives other_error.
\* ------------------------------------------------------------------------
OutcomeCodes == {"ok", "rate_limited", "hard_block", "not_found", "other_error"}

C29_OutcomeTaxonomy ==
    lastCall.op \in {"create", "edit"}
        => /\ lastCall.code \in OutcomeCodes
           /\ lastCall.ok <=> lastCall.code = "ok"
           /\ (lastCall.reqs >= 1 /\ FinalResp(lastCall).status = 0)
                 => lastCall.code = "other_error"

\* a create whose retry, after a rate-limited first response, failed in the
\* transport: the outcome is other_error after two requests
C29_Witness ==
    /\ lastCall.op = "create"
    /\ lastCall.reqs = 2
    /\ lastCall.r2.status = 0
    /\ lastCall.code = "other_error"
    /\ ~lastCall.ok

\* ------------------------------------------------------------------------
\* C30: when the poll of an entry finds the data not ready (the fetch
\* returns nothing or the quota signal, the subject's record is absent, or
\* its imp is null), no edit is issued for the entry, the entry stays in
\* the store with only lastCheckedAt changed (to the time of the poll), the
\* last-seen markers and the client state are unchanged, and the pass goes
\* on with the next entry.
\* ------------------------------------------------------------------------
NotReadyResults == {"none", "quota", "no_player", "imp_null"}

C30_NotReadyFrame ==
    [][ ( /\ pc = "pass"
          /\ Len(log') = Len(log) + 1
          /\ last'.act = "poll"
          /\ last'.fetch \in NotReadyResults )
        => /\ ~last'.edited
           /\ last'.reqs = 0
           /\ last'.key = CurKey
           /\ pending' = [pending EXCEPT ![CurKey].lastCheckedAt = Iso(clock)]
           /\ seen' = seen
           /\ hardBlocked' = hardBlocked
           /\ cooldownUntil' = cooldownUntil
           /\ pc' = "pass"
           /\ ret' = ret
           /\ idx' = idx + 1 ]_vars

\* a pass that returned True after a poll found the imp of an entry null:
\* the entry is stored with the time of the poll, and a later entry was
\* handled
C30_Witness ==
    /\ pc = "idle"
    /\ ret = "true"
    /\ last.act = "poll"
    /\ last.key \notin DOMAIN pending
    /\ \E i \in DOMAIN log :
         /\ i < Len(log)
         /\ log[i].act = "poll"
         /\ ~log[i].edited
         /\ log[i].key \in DOMAIN pending
         /\ pending[log[i].key].lastCheckedAt = Iso(now_epoch)
         /\ log[i].checked = NoVal

\* ------------------------------------------------------------------------
\* C31: when the expired edit or the upgrade edit of an entry returns
\* other_error, the entry stays in the store with its messageId,
\* webhookBase, postedAt and snapshot unchanged, the last-seen markers are
\* unchanged, and the pass goes on with the next entry without returning
\* the stop signal.
\* ------------------------------------------------------------------------
OtherErrorStep ==
    /\ pc = "pass"
    /\ Len(log') = Len(log) + 1
    /\ last'.edited
    /\ last'.code = "other_error"

C31_OtherErrorGoesOn ==
    [][ OtherErrorStep
        => /\ CurKey \in DOMAIN pending'
           /\ pending'[CurKey].messageId = CurEntry.messageId
           /\ pending'[CurKey].webhookBase = CurEntry.webhookBase
           /\ pending'[CurKey].postedAt = CurEntry.postedAt
           /\ pending'[CurKey].snapshot = CurEntry.snapshot
           /\ seen' = seen
           /\ pc' = "pass"
           /\ ret' = ret
           /\ idx' = idx + 1 ]_vars

\* C31 (read for a process that is not hard-blocked when the edit is made)
C31_OtherErrorGoesOnUnblocked ==
    [][ (OtherErrorStep /\ ~hardBlocked)
        => /\ CurKey \in DOMAIN pending'
           /\ pending'[CurKey].messageId = CurEntry.messageId
           /\ pending'[CurKey].webhookBase = CurEntry.webhookBase
           /\ pending'[CurKey].postedAt = CurEntry.postedAt
           /\ pending'[CurKey].snapshot = CurEntry.snapshot
           /\ seen' = seen
           /\ pc' = "pass"
           /\ ret' = ret
           /\ idx' = idx + 1 ]_vars

\* ------------------------------------------------------------------------
\* C32: an entry that was recheck-eligible and was skipped in a pass only
\* because the poll budget was used up is polled in a later pass (before it
\* expires), as long as passes keep being run, even when an older entry
\* stays pending and is due for a recheck again in the pass (the pass
\* polled an entry that an earlier pass had polled).
\* ------------------------------------------------------------------------
SkippedBehindRepolled(k) ==
    /\ last.act = "budget"
    /\ last.key = k
    /\ \E i \in DOMAIN log : log[i].act = "poll" /\ Truthy(log[i].checked)

C32_SkippedIsPolledLater ==
    \A k \in SeedKeys :
        SkippedBehindRepolled(k) ~> (last.act = "poll" /\ last.key = k)

\* the second pass of a process: the older entry, polled by the first pass,
\* is due for a recheck again and takes the budget again, and the younger
\* entry, never polled, is skipped for the budget a second time
C32_SkippedAgain ==
    /\ passes = 2
    /\ \E i, j \in DOMAIN log :
         /\ i < j
         /\ log[i].act = "poll"
         /\ Truthy(log[i].checked)
         /\ log[j].act = "budget"
         /\ log[j].checked = NoVal

\* ------------------------------------------------------------------------
\* The entries a pass looks at and leaves alone (specification Spec)
\* ------------------------------------------------------------------------
\* a step that found the entry neither due for expiry nor due for recheck,
\* or due for recheck with the budget used up
Skipped(e) == e.act \in {"wait", "budget"}

\* no fetch and no edit was made for the entry
NothingIssued(i) ==
    /\ ~log[i].edited
    /\ log[i].code = "none"
    /\ (i = Len(log) /\ last.key = log[i].key) =>
          last.fetch = "none" /\ last.reqs = 0

\* C33: a pass leaves every entry that is due for neither expiry nor recheck,
\* and every due entry skipped for budget, as the store held it when the pass
\* was called: nothing is issued for it, no field of it changes and it stays
\* under the same key
C33_SkippedUntouched ==
    \A i \in DOMAIN log :
        Skipped(log[i]) =>
            /\ NothingIssued(i)
            /\ log[i].key \in DOMAIN pending
            /\ log[i].key \in DOMAIN loaded
            /\ pending[log[i].key] = loaded[log[i].key]

\* C33, amended: the same, except that an entry the store held under a legacy
\* key may have been moved to its composite key by the normalization at the
\* start of the pass
C33_SkippedUntouchedOrMigrated ==
    \A i \in DOMAIN log :
        Skipped(log[i]) =>
            /\ NothingIssued(i)
            /\ log[i].key \in DOMAIN pending
            /\ \E l \in DOMAIN loaded :
                  /\ loaded[l] = pending[log[i].key]
                  /\ \/ l = log[i].key
                     \/ /\ l.kind = "legacy"
                        /\ IntOk(loaded[l].steamId)
                        /\ log[i].key = CompositeKey(l.m, loaded[l].steamId.v)

\* a second pass has ended in which one entry, polled before, was not yet due
\* again and another was skipped for budget
C33_Witness ==
    /\ passes = 2
    /\ pc = "idle"
    /\ \E i, j \in DOMAIN log :
          /\ log[i].act = "wait" /\ Truthy(log[i].checked)
          /\ log[j].act = "budget"

\* ------------------------------------------------------------------------
\* The settings of an entry and the retry-after of a response, over their
\* inputs (specification SpecValues)
\* ------------------------------------------------------------------------
\* FALLBACK_EXPIRY_SEC: unset, not a digit string, or digits below, at and
\* above the bounds
ExpirySettings ==
    {NoVal, Junk, Digits(0), Digits(MIN_EXPIRY - 1), Digits(MIN_EXPIRY),
     Digits(MAX_EXPIRY), Digits(MAX_EXPIRY + 1)}

ValueEnvs == {[BareEnv EXCEPT !.expiryRaw = x] : x \in ExpirySettings}

\* expiresAfterSec and recheckWindowSec of an entry: absent, a string, a
\* numeric string, or a number below, at and above the bounds
ExpiryOverrides ==
    {NoVal, Junk, Digits(MIN_EXPIRY + 1), Num(0 - 1), Num(0), Num(MIN_EXPIRY - 1),
     Num(MIN_EXPIRY), Num(MAX_EXPIRY), Num(MAX_EXPIRY + 1)}

RecheckOverrides ==
    {NoVal, Junk, Digits(MIN_RECHECK + 1), Num(0 - 1), Num(0), Num(MIN_RECHECK - 1),
     Num(MIN_RECHECK), Num(MAX_RECHECK), Num(MAX_RECHECK + 1)}

\* retry_after of a 429 body, in milliseconds: absent, unparseable, a numeric
\* string, and numbers around 0, 0.2 s, 0.5 s and 60 s and far above
RetryAfterValues ==
    {NoVal, Junk, Digits(3000), Num(0 - 1000), Num(0), Num(100), Num(199), Num(200),
     Num(499), Num(500), Num(2000), Num(59999), Num(60000), Num(60001),
     Num(5000000), Num(60000000), Num(61000000)}

ValueKey == CompositeKey(1, 1)

InitValues ==
    /\ clock = StartClock
    /\ env \in ValueEnvs
    /\ hardBlocked = FALSE
    /\ cooldownUntil = 0
    /\ \E x \in ExpiryOverrides, w \in RecheckOverrides :
          pending = (ValueKey :>
                       SeedEntry(1, 1, Num(StartClock), x, w))
    /\ loaded = pending
    /\ seen = [s \in Subjects |-> 0]
    /\ pc = "values"
    /\ now_epoch = 0
    /\ order = <<>>
    /\ idx = 1
    /\ checks_used = 0
    /\ ret = "none"
    /\ passes = 0
    /\ log = <<>>
    /\ last = NoStep
    /\ \E ra \in RetryAfterValues :
          lastCall = [NoCall EXCEPT !.r1 = Resp(429, FALSE, ra, "noid")]
    /\ run = NoRun

\* _entry_expiry_seconds(entry) or expiry_sec_env, and _recheck_window(entry)
EntrySettings ==
    /\ pc = "values"
    /\ log = <<>>
    /\ log' = <<Event(ValueKey, pending[ValueKey], "settings", "none", FALSE,
                      NoOutcome, hardBlocked, cooldownUntil, clock)>>
    /\ UNCHANGED <<clock, env, hardBlocked, cooldownUntil, pending, loaded, seen, pc,
                   now_epoch, order, idx, checks_used, ret, passes, last, lastCall,
                   run>>

\* _parse_retry_after(r)
RetryAfter ==
    /\ pc = "values"
    /\ lastCall.op = "none"
    /\ lastCall' = [lastCall EXCEPT !.op = "retry_after",
                                    !.backoff = parse_retry_after(lastCall.r1)]
    /\ UNCHANGED <<clock, env, hardBlocked, cooldownUntil, pending, loaded, seen, pc,
                   now_epoch, order, idx, checks_used, ret, passes, log, last, run>>

NextValues ==
    \/ EntrySettings
    \/ RetryAfter

SpecValues == InitValues /\ [][NextValues]_vars

\* C34: whatever the environment setting and the overrides of the entry,
\* the effective expiry lies in [300, 10800] seconds and the effective
\* recheck window in [60, 3600] seconds
C34_SettingsWithinBounds ==
    \A i \in DOMAIN log :
        log[i].act = "settings" =>
            /\ MIN_EXPIRY <= log[i].expires /\ log[i].expires <= MAX_EXPIRY
            /\ MIN_RECHECK <= log[i].window /\ log[i].window <= MAX_RECHECK

\* the settings were read of an entry whose expiry override is above the
\* maximum and whose recheck override is not a number, under an environment
\* setting below the minimum
C34_Witness ==
    /\ pc = "values"
    /\ Len(log) = 1
    /\ env.expiryRaw = Digits(MIN_EXPIRY - 1)
    /\ pending[ValueKey].expiresAfterSec = Num(MAX_EXPIRY + 1)
    /\ pending[ValueKey].recheckWindowSec = Junk
    /\ log[1].expires = MAX_EXPIRY
    /\ log[1].window = DEFAULT_RECHECK

\* C35: the parsed retry-after lies in [0.5, 60] seconds; a value above 60
\* is divided by 1000 before it is clamped, and a missing or unparseable
\* value gives 2 seconds
C35_RetryAfterWithinBounds ==
    (pc = "values" /\ lastCall.op = "retry_after") =>
        LET ra == lastCall.r1.ra IN
        /\ RETRY_MIN_MS <= lastCall.backoff /\ lastCall.backoff <= RETRY_MAX_MS
        /\ (ra.k = "num" /\ ra.v > RETRY_MAX_MS) =>
              lastCall.backoff = Max(RETRY_MIN_MS, Min(ra.v \div MsPerSec, RETRY_MAX_MS))
        /\ ra \in {NoVal, Junk} => lastCall.backoff = RETRY_DEFAULT_MS

\* a retry-after of 5000 was parsed and read as 5 seconds
C35_Witness ==
    /\ pc = "values"
    /\ lastCall.op = "retry_after"
    /\ lastCall.r1.ra = Num(5000000)
    /\ lastCall.backoff = 5 * MsPerSec

\* ------------------------------------------------------------------------
\* The last-seen markers over a run (specification SpecRun)
\* ------------------------------------------------------------------------
\* C36: the last-seen marker of a subject never moves back to an older
\* match: no step of a run lowers state[S], in particular not the upgrade of
\* an entry of an earlier match while a later match of S is recorded
C36_MarkerNeverMovesBack ==
    [][\A s \in Subjects : seen'[s] >= seen[s]]_vars

\* ------------------------------------------------------------------------
\* server.py: /run triggers and safe_run_bot (specification SpecServer)
\* ------------------------------------------------------------------------
\* the threads started by run(), one per /run request
Triggers == {1, 2, 3}

\* what run_bot does while it holds the state: load it, reconcile the
\* pending store and process the players, save it
RunStages == <<"load", "pass", "save">>

\* run_lock is held by no thread
NoThread == 0

\* every thread takes the lock whoever holds it
AcquireAnyway(lock) == TRUE

\* with run_lock: the acquire blocks until the lock is free
CanAcquire(lock) == lock = NoThread

\* a thread executing the first statement of safe_run_bot ("call"), entering
\* run_bot ("start") or leaving it ("end")
ServerEvent(t, ev) == [t |-> t, ev |-> ev]

InitServer ==
    /\ clock = StartClock
    /\ env = BareEnv
    /\ hardBlocked = FALSE
    /\ cooldownUntil = 0
    /\ pending = <<>>
    /\ loaded = pending
    /\ seen = [s \in Subjects |-> 0]
    /\ pc = "server"
    /\ now_epoch = 0
    /\ order = <<>>
    /\ idx = 1
    /\ checks_used = 0
    /\ ret = "none"
    /\ passes = 0
    /\ log = <<>>
    /\ last = NoStep
    /\ lastCall = NoCall
    /\ run = [lock |-> NoThread,
              at |-> [t \in Triggers |-> "none"],
              stage |-> [t \in Triggers |-> 0]]

ServerVars == <<clock, env, hardBlocked, cooldownUntil, pending, loaded, seen, pc,
                now_epoch, order, idx, checks_used, ret, passes, last, lastCall>>

\* run(): Thread(target=safe_run_bot).start()
Trigger(t) ==
    /\ pc = "server"
    /\ run.at[t] = "none"
    /\ run' = [run EXCEPT !.at[t] = "check"]
    /\ UNCHANGED <<log, ServerVars>>

\* if run_lock.locked(): return
CheckLocked(t) ==
    /\ pc = "server"
    /\ run.at[t] = "check"
    /\ run' = [run EXCEPT !.at[t] = IF run.lock # NoThread THEN "skipped"
                                    ELSE "acquire"]
    /\ log' = Append(log, ServerEvent(t, "call"))
    /\ UNCHANGED ServerVars

\* with run_lock: entered, run_bot() is called
Acquire(t) ==
    /\ pc = "server"
    /\ run.at[t] = "acquire"
    /\ CanAcquire(run.lock)
    /\ run' = [run EXCEPT !.lock = t, !.at[t] = "running", !.stage[t] = 1]
    /\ log' = Append(log, ServerEvent(t, "start"))
    /\ UNCHANGED ServerVars

\* run_bot goes on to its next stage
RunBotStep(t) ==
    /\ pc = "server"
    /\ run.at[t] = "running"
    /\ run.stage[t] < Len(RunStages)
    /\ run' = [run EXCEPT !.stage[t] = @ + 1]
    /\ UNCHANGED <<log, ServerVars>>

\* run_bot returns: the with block is left and the lock released
RunBotReturn(t) ==
    /\ pc = "server"
    /\ run.at[t] = "running"
    /\ run.stage[t] = Len(RunStages)
    /\ run' = [run EXCEPT !.lock = NoThread, !.at[t] = "done"]
    /\ log' = Append(log, ServerEvent(t, "end"))
    /\ UNCHANGED ServerVars

\* run_bot raises: the with block releases the lock, the except clause of
\* safe_run_bot prints the trace
RunBotRaise(t) ==
    /\ pc = "server"
    /\ run.at[t] = "running"
    /\ run' = [run EXCEPT !.lock = NoThread, !.at[t] = "crashed"]
    /\ log' = Append(log, ServerEvent(t, "end"))
    /\ UNCHANGED ServerVars

NextServer ==
    \/ \E t \in Triggers : Trigger(t)
    \/ \E t \in Triggers : CheckLocked(t)
    \/ \E t \in Triggers : Acquire(t)
    \/ \E t \in Triggers : RunBotStep(t)
    \/ \E t \in Triggers : RunBotReturn(t)
    \/ \E t \in Triggers : RunBotRaise(t)

SpecServer == InitServer /\ [][NextServer]_vars

\* the threads inside run_bot
InRunBot == {t \in Triggers : run.at[t] = "running"}

\* C37: under any interleaving of /run triggers at most one thread executes
\* run_bot at any time, and that thread holds the lock
C37_OneRunAtATime ==
    pc = "server" =>
        /\ Cardinality(InRunBot) <= 1
        /\ \A t \in InRunBot : run.lock = t

\* one thread is reconciling the store while a second, which found the lock
\* free, waits for it and a third was turned away
C37_Witness ==
    /\ pc = "server"
    /\ \E a, b, c \in Triggers :
          /\ run.at[a] = "running" /\ RunStages[run.stage[a]] = "pass"
          /\ run.at[b] = "acquire"
          /\ run.at[c] = "skipped"

Has(t, ev) == \E i \in DOMAIN log : log[i] = ServerEvent(t, ev)

Pos(t, ev) == CHOOSE i \in DOMAIN log : log[i] = ServerEvent(t, ev)

\* C38: a trigger that arrives while another run is in progress or about to
\* start is skipped, never queued: of two calls of safe_run_bot that both
\* execute run_bot, the first run had finished before the second call began
C38_OverlappingCallsRunOnce ==
    pc = "server" =>
        \A a, b \in Triggers :
            (/\ a # b
             /\ Has(a, "start") /\ Has(b, "start")
             /\ Pos(a, "start") < Pos(b, "start"))
            => /\ Has(a, "end")
               /\ Pos(a, "end") < Pos(b, "call")

\* ------------------------------------------------------------------------
\* run_bot from its load of the persisted state (specification SpecLoad)
\* ------------------------------------------------------------------------
\* run_bot has set state = {} and is about to call load_state; stored is the
\* document in the gist
InitLoad ==
    /\ clock = StartClock
    /\ \E st \in RunSeedStates :
         /\ env = st.env
         /\ \E b \in BOOLEAN :
              run = [stage |-> "load", partyCorrupt |-> b, loadFailed |-> FALSE,
                     stored |-> [pending |-> st.pending,
                                 seen |-> [s \in Subjects |-> LastSeen(st.pending, s)]]]
                    @@ NoRun
    /\ pending = <<>>
    /\ hardBlocked = FALSE
    /\ cooldownUntil = 0
    /\ loaded = pending
    /\ seen = [s \in Subjects |-> 0]
    /\ pc = "idle"
    /\ now_epoch = 0
    /\ order = <<>>
    /\ idx = 1
    /\ checks_used = 0
    /\ ret = "none"
    /\ passes = 0
    /\ log = <<>>
    /\ last = NoStep
    /\ lastCall = NoCall

\* state = load_state() returns the stored document
LoadReturns ==
    /\ run.stage = "load"
    /\ pending' = run.stored.pending
    /\ loaded' = run.stored.pending
    /\ seen' = run.stored.seen
    /\ run' = [run EXCEPT !.stage = "pending"]
    /\ UNCHANGED <<clock, env, hardBlocked, cooldownUntil, pc, now_epoch, order, idx,
                   checks_used, ret, passes, log, last, lastCall>>

\* load_state raises (the request fails or the status is an error): the
\* handler prints and run_bot goes on with state = {}, which has no party
\* map either
LoadRaises ==
    /\ run.stage = "load"
    /\ run' = [run EXCEPT !.stage = "pending", !.loadFailed = TRUE,
                          !.partyCorrupt = FALSE]
    /\ UNCHANGED <<RunVars, ret>>

NextLoad ==
    \/ LoadReturns
    \/ LoadRaises
    \/ RunPass
    \/ StepSkip
    \/ StepExpire
    \/ StepWait
    \/ StepBudget
    \/ StepPollNotReady
    \/ StepPollUpgrade
    \/ RunPassEnd
    \/ PassRaise
    \/ AfterPendingPass
    \/ LoopHead
    \/ PlayerPassReturned
    \/ PlayerMatch
    \/ SaveState

SpecLoad == InitLoad /\ [][NextLoad]_vars

\* C39: a failed load never causes the persisted entries and markers to be
\* overwritten: when the load failed, no document is saved in which an entry
\* or a marker of the stored document is missing
C39_FailedLoadKeepsStored ==
    (run.stage = "done" /\ run.loadFailed /\ run.saved.called) =>
        /\ \A k \in DOMAIN run.stored.pending :
              k \in DOMAIN run.saved.pending
        /\ \A s \in Subjects :
              run.stored.seen[s] # 0 => run.saved.seen[s] = run.stored.seen[s]

\* ------------------------------------------------------------------------
\* The placeholder of process_player (specification SpecRun)
\* ------------------------------------------------------------------------
\* C40: when the placeholder create of a fresh match without imp returns ok,
\* the store holds an entry under "<matchId>:<subjectId>" with the returned
\* message id and the base of the endpoint used, and state[subjectId] is the
\* match id; when it fails, no entry is added and state[subjectId] is as it
\* was, so the match is still newer than the marker
C40_PlaceholderRecorded ==
    (run.stage \in {"loop", "save", "done"} /\ run.post.made) =>
        LET key == run.post.key IN
        IF run.post.ok
        THEN /\ key \in DOMAIN pending
             /\ pending[key].messageId = run.post.msgId
             /\ pending[key].webhookBase = run.post.url
             /\ pending[key].matchId = Num(key.m)
             /\ pending[key].steamId = Num(key.s)
             /\ seen[key.s] = key.m
        ELSE /\ (key \in DOMAIN pending) = run.post.had
             /\ seen[key.s] = run.post.before
             /\ seen[key.s] # key.m

\* a placeholder was created and recorded with the id the endpoint returned
C40_Witness ==
    /\ run.stage = "done"
    /\ run.post.made /\ run.post.ok
    /\ run.post.msgId = Num(NewMsgId)
    /\ run.post.key \in DOMAIN run.saved.pending
    /\ run.saved.seen[run.post.key.s] = run.post.key.m

\* a placeholder create failed without blocking the client, and the run went
\* on with the marker where it was
C40_WitnessFailed ==
    /\ run.stage = "done"
    /\ run.post.made /\ ~run.post.ok
    /\ ~hardBlocked
    /\ run.post.key \notin DOMAIN pending
    /\ run.saved.called
    /\ run.saved.seen[run.post.key.s] = run.post.before

====
